---- MODULE Spec2Model ----
(***************************************************************************)
(* Authentication and session lifecycle of the Enhanced Channel Manager    *)
(* backend (backend/auth/routes.py): first-run setup, local and delegated  *)
(* login, refresh-token rotation, logout, password reset and identity      *)
(* linking, over the four tables users, user_identities, user_sessions and *)
(* password_reset_tokens.                                                  *)
(*                                                                         *)
(* Time is counted in units of 30 minutes.                                 *)
(***************************************************************************)
EXTENDS Integers, FiniteSets, Sequences, TLC

\* ------------------------------------------------------------------ bounds
MaxSessions == 1
MaxResetTokens == 1
MaxUsers == 3
MaxIdentities == 3
MaxTicks == 2
MaxRotations == 1
MaxRequests == 2
MaxSalts == 3
MaxSeq == 5

\* ------------------------------------------------------- program constants
UnitsPerHour == 2
UnitsPerDay == 48
refresh_token_expire_days == 7
access_token_expire_minutes == 30
ResetTokenHours == 1

\* ------------------------------------------------------------ input values
Usernames == {"admin", "bob"}
SetupUsernames == {"admin"}
Emails == {"a@x.org", "b@x.org"}
SetupEmails == {"a@x.org"}
StrongPasswords == {"Valid1Pass", "Other2Pass"}
Passwords == StrongPasswords \cup {"weak"}
SetupPasswords == {"Valid1Pass", "weak"}
ExternalIds == {"x1", "x2"}
ProviderUsernames == {"bob"}
ProviderEmails == {"b@x.org"}
LinkUsernames == {"admin", "bob"}
LinkPasswords == {"Other2Pass", ""}
\* How far the clock may move in one step: 30 minutes, 2 hours, 7 days.
HalfHour == UnitsPerHour \div 2
TwoHours == 2 * UnitsPerHour
SevenDays == refresh_token_expire_days * UnitsPerDay

\* ------------------------------------------------------------- null values
NoTime == 0 - 1
NoHash == [pw |-> "", salt |-> 0]
NoToken == [sub |-> 0, type |-> "none", iat |-> 0, exp |-> 0, jti |-> 0]
NoRaw == ""
NoUser == 0

\* AuthSettings(): the defaults of the fields the model keeps.
\* jwt.secret_key is "" (NoSecret) until a secret is generated.
NoSecret == 0
DefaultSettings ==
    [require_auth |-> TRUE, dispatcharr_enabled |-> FALSE, secret_key |-> NoSecret]

\* A secret an earlier run of the process generated: none that this run
\* generates (these are 1..MaxSeq) equals it.
OldSecret == MaxSeq + 1
Installed == [DefaultSettings EXCEPT !.secret_key = OldSecret]

\* AUTH_CONFIG_FILE: absent, the JSON of a settings value, or a file that
\* json.loads refuses (write_text truncates the file before it writes).
NoFile == [kind |-> "absent", data |-> DefaultSettings]
Truncated == [kind |-> "truncated", data |-> DefaultSettings]
Written(s) == [kind |-> "json", data |-> s]

VARIABLES
    users,        \* table users: id -> row
    identities,   \* table user_identities: id -> row
    sessions,     \* table user_sessions: id -> row
    resetTokens,  \* table password_reset_tokens: id -> row
    now,          \* datetime.utcnow(), in units of 30 minutes
    ticks,        \* how often the clock has moved
    seq,          \* how many random values (jti, reset tokens) were drawn
    issued,       \* raw refresh tokens set as cookies so far
    mailed,       \* raw reset tokens handed to the reset e-mail
    rotated,      \* raw refresh tokens a refresh has succeeded with
    redeemed,     \* raw reset tokens a reset_password has succeeded with
    inflight,     \* requests suspended between their query and their commit
    logs,         \* raw reset tokens written to the log
    settings,     \* the cached AuthSettings
    cached,       \* whether _cached_auth_settings is set (not None)
    config_file,  \* AUTH_CONFIG_FILE: what the disk holds
    last          \* the last request and its response

vars == <<users, identities, sessions, resetTokens, now, ticks, seq, issued,
          mailed, rotated, redeemed, inflight, logs, settings, cached, config_file,
          last>>

\* ---------------------------------------------------------------- helpers
Min(S) == CHOOSE x \in S : \A y \in S : x <= y
Max(S) == CHOOSE x \in S : \A y \in S : x >= y

\* A new row's autoincrement id.
NextId(table) == IF DOMAIN table = {} THEN 1 ELSE Max(DOMAIN table) + 1

\* query(...).filter(...).first(): the matching row with the lowest id, or 0.
First(S) == IF S = {} THEN 0 ELSE Min(S)

Insert(table, row) == table @@ (NextId(table) :> row)
Delete(table, ids) == [i \in DOMAIN table \ ids |-> table[i]]

\* The uniqueness the users table declares: no two rows with one username, no
\* two rows with one e-mail address that is set ("" is the model's NULL).
UniqueUsers(table) ==
    \A u, v \in DOMAIN table :
        u # v => /\ table[u].username # table[v].username
                 /\ table[u].email = "" \/ table[u].email # table[v].email

\* auth.password: a salted one-way hash, and its verification.
hash_password(p, salt) == [pw |-> p, salt |-> salt]
verify_password(p, h) == p # "" /\ h # NoHash /\ h.pw = p

\* auth.password.validate_password(password, username).valid
validate_password(p, username) == p \in StrongPasswords /\ p # username

\* auth.tokens.hash_token: a one-way digest of the raw token.
hash_token(t) == [digest |-> t]
NoDigest == hash_token(NoToken)

\* auth.tokens.create_refresh_token(user_id) at the current time.
create_refresh_token(user_id, jti) ==
    [sub |-> user_id, type |-> "refresh", iat |-> now,
     exp |-> now + refresh_token_expire_days * UnitsPerDay, jti |-> jti]

\* auth.tokens.create_access_token(user_id, username) at the current time.
create_access_token(user_id, jti) ==
    [sub |-> user_id, type |-> "access", iat |-> now,
     exp |-> now + (access_token_expire_minutes * UnitsPerHour) \div 60, jti |-> jti]

\* auth.tokens.decode_token: "ok", or the error it raises.
decode_token(t) ==
    IF t.type \notin {"refresh", "access"} THEN "InvalidTokenError"
    ELSE IF t.exp < now THEN "TokenExpiredError"
    ELSE "ok"

\* The response record: the request (op and its arguments) and its outcome.
Resp(op, uid, name, pw, tok, rt, status, detail, out) ==
    [op |-> op, uid |-> uid, name |-> name, pw |-> pw, tok |-> tok, rt |-> rt,
     status |-> status, detail |-> detail, out |-> out]

\* ------------------------------------------------------------------- Init
Init ==
    /\ users = <<>>
    /\ identities = <<>>
    /\ sessions = <<>>
    /\ resetTokens = <<>>
    /\ now = 0
    /\ ticks = 0
    /\ seq = 0
    /\ issued = {}
    /\ mailed = {}
    /\ rotated = {}
    /\ redeemed = {}
    /\ inflight = <<>>
    /\ logs = {}
    /\ settings = Installed
    /\ cached = TRUE
    /\ config_file = Written(Installed)
    /\ last = Resp("none", NoUser, "", "", NoToken, NoRaw, 0, "", NoToken)

\* The clock moves.
Tick(d) ==
    /\ ticks < MaxTicks
    /\ now' = now + d
    /\ ticks' = ticks + 1
    /\ UNCHANGED <<users, identities, sessions, resetTokens, seq, issued, mailed,
                   rotated, redeemed, inflight, logs, settings, cached, config_file, last>>

\* Mutant: the users are not counted.
user_count_Zero == Cardinality({})

\* session.query(User).count()
user_count == Cardinality(DOMAIN users)

\* GET /api/auth/setup-required; the response's detail is its field `required`.
check_setup_required ==
    last' = Resp("setup_required", NoUser, "", "", NoToken, NoRaw, 200,
                 IF user_count = 0 THEN "true" ELSE "false", NoToken)

SetupRequired ==
    /\ check_setup_required
    /\ UNCHANGED <<users, identities, sessions, resetTokens, now, ticks, seq, issued,
                   mailed, rotated, redeemed, inflight, logs, settings, cached, config_file>>

\* POST /api/auth/setup
initial_setup(username, email, password) ==
    IF user_count > 0
    THEN /\ last' = Resp("setup", NoUser, username, password, NoToken, NoRaw, 403,
                         "Setup already completed. Users already exist.", NoToken)
         /\ UNCHANGED <<users, identities, seq>>
    ELSE IF ~validate_password(password, username)
    THEN /\ last' = Resp("setup", NoUser, username, password, NoToken, NoRaw, 422,
                         "weak password", NoToken)
         /\ UNCHANGED <<users, identities, seq>>
    ELSE LET uid == NextId(users) IN
         /\ users' = Insert(users,
                [username |-> username, email |-> email,
                 password_hash |-> hash_password(password, seq + 1),
                 auth_provider |-> "local", external_id |-> "",
                 is_admin |-> TRUE, is_active |-> TRUE, last_login_at |-> NoTime])
         /\ identities' = Insert(identities,
                [user_id |-> uid, provider |-> "local", identifier |-> username,
                 external_id |-> "", last_used_at |-> NoTime])
         /\ seq' = seq + 1
         /\ last' = Resp("setup", uid, username, password, NoToken, NoRaw, 201,
                         "Setup complete", NoToken)

Setup ==
    /\ \E username \in SetupUsernames, email \in SetupEmails, password \in SetupPasswords :
           initial_setup(username, email, password)
    /\ UNCHANGED <<sessions, resetTokens, now, ticks, issued, mailed, rotated,
                   redeemed, inflight, logs, settings, cached, config_file>>

\* ------------------------------------------------------------ local login
LocalIdentityOf(username) ==
    First({i \in DOMAIN identities :
              /\ identities[i].provider = "local"
              /\ identities[i].identifier = username})

\* The user the login resolves: through the identity table first, then the
\* direct lookup by username; 0 when there is none.
ResolveLocalUser(username) ==
    LET identity == LocalIdentityOf(username) IN
    IF identity # 0
    THEN IF identities[identity].user_id \in DOMAIN users
         THEN identities[identity].user_id ELSE NoUser
    ELSE First({u \in DOMAIN users : users[u].username = username})

has_local_identity(uid) ==
    \E i \in DOMAIN identities :
        identities[i].user_id = uid /\ identities[i].provider = "local"

\* Mutant: the password is not verified against the stored hash.
LoginCredentialCheck_SkipsPassword(uid, password) ==
    IF uid = NoUser THEN "Invalid username or password"
    ELSE IF ~has_local_identity(uid) /\ users[uid].auth_provider # "local"
    THEN "Please use your configured authentication provider to log in"
    ELSE IF ~users[uid].is_active THEN "User account is disabled"
    ELSE "ok"

\* The credential check of login: "ok", or the detail of the 401 it raises.
LoginCredentialCheck(uid, password) ==
    IF uid = NoUser THEN "Invalid username or password"
    ELSE IF ~has_local_identity(uid) /\ users[uid].auth_provider # "local"
    THEN "Please use your configured authentication provider to log in"
    ELSE IF users[uid].password_hash = NoHash
            \/ ~verify_password(password, users[uid].password_hash)
    THEN "Invalid username or password"
    ELSE IF ~users[uid].is_active THEN "User account is disabled"
    ELSE "ok"

NewSession_HashOfClaims(uid, refresh_token) ==
    [user_id |-> uid,
     refresh_token_hash |-> hash_token([refresh_token EXCEPT !.jti = 0]),
     is_revoked |-> FALSE,
     expires_at |-> now + refresh_token_expire_days * UnitsPerDay,
     last_used_at |-> now]

\* The session row created at login.
NewSession(uid, refresh_token) ==
    [user_id |-> uid, refresh_token_hash |-> hash_token(refresh_token),
     is_revoked |-> FALSE,
     expires_at |-> now + refresh_token_expire_days * UnitsPerDay,
     last_used_at |-> now]

\* POST /api/auth/login, while the session table holds fewer than `rows` rows.
login_within(username, password, rows) ==
    LET identity == LocalIdentityOf(username)
        uid == ResolveLocalUser(username)
        check == LoginCredentialCheck(uid, password)
        refresh_token == create_refresh_token(uid, seq + 1)
    IN
    IF check # "ok"
    THEN /\ last' = Resp("login", uid, username, password, NoToken, NoRaw, 401, check,
                         NoToken)
         /\ UNCHANGED <<users, identities, sessions, seq, issued>>
    ELSE /\ Cardinality(DOMAIN sessions) < rows
         /\ identities' = IF identity # 0
                          THEN [identities EXCEPT ![identity].last_used_at = now]
                          ELSE identities
         /\ sessions' = Insert(sessions, NewSession(uid, refresh_token))
         /\ users' = [users EXCEPT ![uid].last_login_at = now]
         /\ seq' = seq + 1
         /\ issued' = issued \cup {refresh_token}
         /\ last' = Resp("login", uid, username, password, NoToken, NoRaw, 200,
                         "Login successful", refresh_token)

login(username, password) == login_within(username, password, MaxSessions)

Login ==
    /\ \E username \in Usernames, password \in Passwords : login(username, password)
    /\ UNCHANGED <<resetTokens, now, ticks, mailed, rotated, redeemed, inflight, logs, settings, cached, config_file>>

\* ---------------------------------------------------------------- refresh
\* The tokens a client may present: every cookie set so far.
Presentable == issued

\* The access token issued in the same response as refresh token t.
AccessTokenOf(t) ==
    [sub |-> t.sub, type |-> "access", iat |-> t.iat,
     exp |-> t.iat + (access_token_expire_minutes * UnitsPerHour) \div 60, jti |-> t.jti]

\* What a client can put in the refresh cookie: a token it was issued, of either
\* type, or nothing.
RefreshCookies == Presentable \cup {AccessTokenOf(t) : t \in issued} \cup {NoToken}

\* Mutant: the lookup does not leave out the revoked sessions.
SessionOf_IgnoresRevoked(refresh_token) ==
    First({s \in DOMAIN sessions :
              sessions[s].refresh_token_hash = hash_token(refresh_token)})

\* The non-revoked session holding the hash of the presented token, or 0.
SessionOf(refresh_token) ==
    First({s \in DOMAIN sessions :
              /\ sessions[s].refresh_token_hash = hash_token(refresh_token)
              /\ sessions[s].is_revoked = FALSE})

\* Mutant: neither the token's nor the session's expiry is looked at.
RefreshCheck_IgnoresExpiry(refresh_token) ==
    LET sid == SessionOf(refresh_token)
        uid == refresh_token.sub
    IN
    IF refresh_token = NoToken THEN "No refresh token provided"
    ELSE IF refresh_token.type # "refresh" THEN "Invalid token type"
    ELSE IF sid = 0 THEN "Session not found or revoked"
    ELSE IF uid \notin DOMAIN users \/ ~users[uid].is_active
    THEN "User not found or disabled"
    ELSE "ok"

\* Mutant: the type claim is not looked at.
RefreshCheck_AnyType(refresh_token) ==
    LET decoded == decode_token(refresh_token)
        sid == SessionOf(refresh_token)
        uid == refresh_token.sub
    IN
    IF refresh_token = NoToken THEN "No refresh token provided"
    ELSE IF decoded = "TokenExpiredError" THEN "Refresh token expired"
    ELSE IF decoded = "InvalidTokenError" THEN "Invalid refresh token"
    ELSE IF sid = 0 THEN "Session not found or revoked"
    ELSE IF sessions[sid].expires_at < now THEN "Session expired"
    ELSE IF uid \notin DOMAIN users \/ ~users[uid].is_active
    THEN "User not found or disabled"
    ELSE "ok"

RefreshCheck_IgnoresUser(refresh_token) ==
    LET decoded == decode_token(refresh_token)
        sid == SessionOf(refresh_token)
    IN
    IF refresh_token = NoToken THEN "No refresh token provided"
    ELSE IF decoded = "TokenExpiredError" THEN "Refresh token expired"
    ELSE IF decoded = "InvalidTokenError" THEN "Invalid refresh token"
    ELSE IF refresh_token.type # "refresh" THEN "Invalid token type"
    ELSE IF sid = 0 THEN "Session not found or revoked"
    ELSE IF sessions[sid].expires_at < now THEN "Session expired"
    ELSE "ok"

\* The checks of refresh before the rotation: "ok", or the error raised.
RefreshCheck(refresh_token) ==
    LET decoded == decode_token(refresh_token)
        sid == SessionOf(refresh_token)
        uid == refresh_token.sub
    IN
    IF refresh_token = NoToken THEN "No refresh token provided"
    ELSE IF decoded = "TokenExpiredError" THEN "Refresh token expired"
    ELSE IF decoded = "InvalidTokenError" THEN "Invalid refresh token"
    ELSE IF refresh_token.type # "refresh" THEN "Invalid token type"
    ELSE IF sid = 0 THEN "Session not found or revoked"
    ELSE IF sessions[sid].expires_at < now THEN "Session expired"
    ELSE IF uid \notin DOMAIN users \/ ~users[uid].is_active
    THEN "User not found or disabled"
    ELSE "ok"

\* Mutant: the rotation leaves the session table as it is.
RotatedSession_NoRotation(sid, new_refresh_token) == sessions

\* Mutant: the rotation bumps the row but keeps the presented token's hash.
RotatedSession_KeepsHash(sid, new_refresh_token) ==
    [sessions EXCEPT ![sid].last_used_at = now,
                     ![sid].expires_at = now + refresh_token_expire_days * UnitsPerDay]

RotatedSession_BumpsAll(sid, new_refresh_token) ==
    [s \in DOMAIN sessions |->
        IF s = sid
        THEN [sessions[s] EXCEPT
                 !.refresh_token_hash = hash_token(new_refresh_token),
                 !.last_used_at = now,
                 !.expires_at = now + refresh_token_expire_days * UnitsPerDay]
        ELSE IF sessions[s].user_id = sessions[sid].user_id
        THEN [sessions[s] EXCEPT !.last_used_at = now]
        ELSE sessions[s]]

\* The row of session sid after the rotation to new_refresh_token.
RotatedSession(sid, new_refresh_token) ==
    [sessions EXCEPT ![sid].refresh_token_hash = hash_token(new_refresh_token),
                     ![sid].last_used_at = now,
                     ![sid].expires_at = now + refresh_token_expire_days * UnitsPerDay]

\* POST /api/auth/refresh
refresh_tokens(refresh_token) ==
    LET check == RefreshCheck(refresh_token)
        sid == SessionOf(refresh_token)
        new_refresh_token == create_refresh_token(refresh_token.sub, seq + 1)
    IN
    IF check # "ok"
    THEN /\ last' = Resp("refresh", NoUser, "", "", refresh_token, NoRaw, 401, check,
                         NoToken)
         /\ UNCHANGED <<sessions, seq, issued, rotated>>
    ELSE /\ Cardinality(rotated \cup {refresh_token}) <= MaxRotations
         /\ sessions' = RotatedSession(sid, new_refresh_token)
         /\ seq' = seq + 1
         /\ issued' = issued \cup {new_refresh_token}
         /\ rotated' = rotated \cup {refresh_token}
         /\ last' = Resp("refresh", refresh_token.sub, "", "", refresh_token, NoRaw, 200,
                         "Token refreshed", new_refresh_token)

Refresh ==
    /\ \E refresh_token \in RefreshCookies : refresh_tokens(refresh_token)
    /\ UNCHANGED <<users, identities, resetTokens, now, ticks, mailed, redeemed, inflight, logs, settings, cached, config_file>>

\* ----------------------------------------------------------------- logout
\* The session holding the hash of the presented token, revoked or not, or 0.
AnySessionOf(refresh_token) ==
    First({s \in DOMAIN sessions :
              sessions[s].refresh_token_hash = hash_token(refresh_token)})

\* Mutant: logout deletes the session row it finds instead of flagging it.
logout_DeletesRow(refresh_token) ==
    LET sid == AnySessionOf(refresh_token) IN
    /\ sessions' = IF refresh_token # NoToken /\ sid # 0
                   THEN Delete(sessions, {sid})
                   ELSE sessions
    /\ last' = Resp("logout", NoUser, "", "", refresh_token, NoRaw, 200,
                    "Logged out successfully", NoToken)

\* POST /api/auth/logout
logout(refresh_token) ==
    LET sid == AnySessionOf(refresh_token) IN
    /\ sessions' = IF refresh_token # NoToken /\ sid # 0
                   THEN [sessions EXCEPT ![sid].is_revoked = TRUE]
                   ELSE sessions
    /\ last' = Resp("logout", NoUser, "", "", refresh_token, NoRaw, 200,
                    "Logged out successfully", NoToken)

Logout ==
    /\ \E refresh_token \in Presentable \cup {NoToken} : logout(refresh_token)
    /\ UNCHANGED <<users, identities, resetTokens, now, ticks, seq, issued, mailed,
                   rotated, redeemed, inflight, logs, settings, cached, config_file>>

\* --------------------------------------------------------- password reset
\* secrets.token_urlsafe(32): the n-th random value drawn.
RawToken(n) == ToString(n)

\* The row forgot_password creates for user uid and raw token raw.
NewResetToken(uid, raw, salt) ==
    [user_id |-> uid, token_hash |-> hash_password(raw, salt),
     expires_at |-> now + ResetTokenHours * UnitsPerHour, used_at |-> NoTime]

\* The user forgot_password finds for the e-mail address, or 0.
UserByEmail(email) == First({u \in DOMAIN users : users[u].email = email})

\* Mutant: a reset token is issued to a deactivated user as well.
ResetEligible_IgnoresActive(uid) ==
    uid # 0 /\ users[uid].auth_provider = "local"

\* Whether forgot_password issues a reset token for the user found.
ResetEligible(uid) ==
    uid # 0 /\ users[uid].is_active /\ users[uid].auth_provider = "local"

\* Mutant: an address no user has is answered with an error.
ForgotPasswordResponse_RevealsUnknown(email) ==
    IF UserByEmail(email) = 0
    THEN Resp("forgot", NoUser, email, "", NoToken, NoRaw, 404, "No such account", NoToken)
    ELSE Resp("forgot", NoUser, email, "", NoToken, NoRaw, 200,
              "If an account with that email exists, a password reset link has been sent.",
              NoToken)

\* The answer of forgot_password to a request for the e-mail address.
ForgotPasswordResponse(email) ==
    Resp("forgot", NoUser, email, "", NoToken, NoRaw, 200,
         "If an account with that email exists, a password reset link has been sent.",
         NoToken)

\* POST /api/auth/forgot-password; email_sent is what the e-mail collaborator
\* reports.
forgot_password(email, email_sent) ==
    LET uid == UserByEmail(email)
        raw_token == RawToken(seq + 1)
    IN
    /\ last' = ForgotPasswordResponse(email)
    /\ IF ResetEligible(uid)
       THEN /\ Cardinality(DOMAIN resetTokens) < MaxResetTokens
            /\ resetTokens' = Insert(resetTokens, NewResetToken(uid, raw_token, seq + 2))
            /\ seq' = seq + 2
            /\ IF email_sent
               THEN mailed' = mailed \cup {raw_token} /\ logs' = logs
               ELSE logs' = logs \cup {raw_token} /\ mailed' = mailed
       ELSE UNCHANGED <<resetTokens, seq, mailed, logs>>

Forgot ==
    /\ \E email \in Emails, email_sent \in BOOLEAN : forgot_password(email, email_sent)
    /\ UNCHANGED <<users, identities, sessions, now, ticks, issued, rotated, redeemed,
                   inflight, settings, cached, config_file>>

\* forgot_password when the e-mail collaborator reports delivery.
ForgotDelivered ==
    /\ \E email \in Emails : forgot_password(email, TRUE)
    /\ UNCHANGED <<users, identities, sessions, now, ticks, issued, rotated, redeemed,
                   inflight, settings, cached, config_file>>

\* The raw reset tokens a client may present: those mailed or logged, and one
\* that was never issued.
PresentableRaw == mailed \cup logs \cup {"bogus"}

\* Mutant: the scan does not leave out the rows already used.
ValidResetToken_IgnoresUsed(raw) ==
    First({t \in DOMAIN resetTokens : verify_password(raw, resetTokens[t].token_hash)})

\* The unused token row the presented raw token verifies against, or 0.
ValidResetToken(raw) ==
    First({t \in DOMAIN resetTokens :
              /\ resetTokens[t].used_at = NoTime
              /\ verify_password(raw, resetTokens[t].token_hash)})

\* Mutant: the expiry of the matched row is not looked at.
ResetCheck_NoExpiry(raw, new_password) ==
    LET t == ValidResetToken(raw) IN
    IF t = 0 THEN "Invalid or expired reset token"
    ELSE IF resetTokens[t].user_id \notin DOMAIN users
            \/ ~users[resetTokens[t].user_id].is_active
    THEN "Invalid or expired reset token"
    ELSE IF ~validate_password(new_password, users[resetTokens[t].user_id].username)
    THEN "weak password"
    ELSE "ok"

\* The checks of reset_password before the update: "ok", or the detail of the
\* error raised.
ResetCheck(raw, new_password) ==
    LET t == ValidResetToken(raw) IN
    IF t = 0 THEN "Invalid or expired reset token"
    ELSE IF resetTokens[t].expires_at < now THEN "Reset token has expired"
    ELSE IF resetTokens[t].user_id \notin DOMAIN users
            \/ ~users[resetTokens[t].user_id].is_active
    THEN "Invalid or expired reset token"
    ELSE IF ~validate_password(new_password, users[resetTokens[t].user_id].username)
    THEN "weak password"
    ELSE "ok"

ResetStatus(check) ==
    IF check = "ok" THEN 200 ELSE IF check = "weak password" THEN 422 ELSE 400

\* Mutant: the matched token is marked used before the owner and the new
\* password are checked.
reset_password_BurnsToken(raw, new_password) ==
    LET check == ResetCheck(raw, new_password)
        t == ValidResetToken(raw)
    IN
    IF check # "ok"
    THEN /\ last' = Resp("reset", NoUser, "", new_password, NoToken, raw,
                         ResetStatus(check), check, NoToken)
         /\ resetTokens' = IF t # 0 THEN [resetTokens EXCEPT ![t].used_at = now]
                           ELSE resetTokens
         /\ UNCHANGED <<users, seq, redeemed>>
    ELSE /\ users' = [users EXCEPT ![resetTokens[t].user_id].password_hash =
                                       hash_password(new_password, seq + 1)]
         /\ resetTokens' = [resetTokens EXCEPT ![t].used_at = now]
         /\ seq' = seq + 1
         /\ redeemed' = redeemed \cup {raw}
         /\ last' = Resp("reset", resetTokens[t].user_id, "", new_password, NoToken, raw,
                         200, "Password reset successfully", NoToken)

\* POST /api/auth/reset-password
reset_password(raw, new_password) ==
    LET check == ResetCheck(raw, new_password)
        t == ValidResetToken(raw)
    IN
    IF check # "ok"
    THEN /\ last' = Resp("reset", NoUser, "", new_password, NoToken, raw,
                         ResetStatus(check), check, NoToken)
         /\ UNCHANGED <<users, resetTokens, seq, redeemed>>
    ELSE /\ users' = [users EXCEPT ![resetTokens[t].user_id].password_hash =
                                       hash_password(new_password, seq + 1)]
         /\ resetTokens' = [resetTokens EXCEPT ![t].used_at = now]
         /\ seq' = seq + 1
         /\ redeemed' = redeemed \cup {raw}
         /\ last' = Resp("reset", resetTokens[t].user_id, "", new_password, NoToken, raw,
                         200, "Password reset successfully", NoToken)

Reset ==
    /\ \E raw \in PresentableRaw, new_password \in Passwords : reset_password(raw, new_password)
    /\ UNCHANGED <<identities, sessions, now, ticks, issued, mailed, rotated, inflight,
                   logs, settings, cached, config_file>>

\* ------------------------------------------------------ admin dependency
\* Mutant: every authenticated user passes for an admin.
require_admin_AllowsAll(user) == TRUE

\* require_admin: whether the authenticated user passes; a user who does not
\* gets 403 "Admin access required" before the handler's body runs.
require_admin(user) == users[user].is_admin

\* ------------------------------------------------------------- settings
\* PUT /api/auth/admin/settings: the fields given (not "unset") are applied.
Apply(field, given) == IF given = "unset" THEN field ELSE (given = "true")

\* What a call of save_auth_settings meets on the disk: the file is written;
\* the config directory cannot be created; write_text raises PermissionError or
\* OSError before it opened the file, or after it truncated it; json.dumps or
\* write_text raises another exception.
DiskOutcomes == {"saved", "no_directory", "refused", "cut_short", "error"}

\* The outcomes the disk can produce for the file it holds: a directory that
\* cannot be created holds no file.
Possible(outcome) == outcome = "no_directory" => config_file.kind = "absent"

\* The file after write_text(json) with that outcome.
FileAfter(s, outcome) ==
    CASE outcome = "saved" -> Written(s)
      [] outcome = "cut_short" -> Truncated
      [] OTHER -> config_file

save_auth_settings_CachesOnSuccess(s, outcome) ==
    /\ config_file' = FileAfter(s, outcome)
    /\ IF outcome = "saved"
       THEN settings' = s /\ cached' = TRUE
       ELSE settings' = settings /\ cached' = cached

\* settings.save_auth_settings(settings): every path that returns sets the
\* cache; the path that re-raises leaves it.
save_auth_settings(s, outcome) ==
    /\ config_file' = FileAfter(s, outcome)
    /\ IF outcome = "error"
       THEN settings' = settings /\ cached' = cached
       ELSE settings' = s /\ cached' = TRUE

\* What save_auth_settings returns: True, False, or the exception it raises.
SaveResult(outcome) ==
    CASE outcome = "saved" -> "True"
      [] outcome = "error" -> "raised"
      [] OTHER -> "False"

\* settings.load_auth_settings(): the cache when it is set; else the file when
\* it parses; else the defaults, which it caches and then saves.
\* The outcome of a call: the settings it returns and caches, the file, the
\* number of random values drawn, and whether it raised.
Loaded(s, file, drawn, raised, from) ==
    [settings |-> s, file |-> file, seq |-> drawn, raised |-> raised, from |-> from]

\* _generate_secret_key(): the n-th random value drawn.
generate_secret_key(n) == n

\* The defaults with a new secret, cached and then saved (lines 142-148).
LoadDefaults(drawn, outcome) ==
    LET fresh == [DefaultSettings EXCEPT !.secret_key = generate_secret_key(drawn + 1)]
    IN Loaded(fresh, FileAfter(fresh, outcome), drawn + 1, outcome = "error", "defaults")

\* settings.load_auth_settings(): the cache when it is set; else the file when
\* it parses, with a secret generated and saved if it holds none; else, or
\* when that raised, the defaults with a new secret.
load_auth_settings(outcome) ==
    IF cached THEN Loaded(settings, config_file, seq, FALSE, "cache")
    ELSE IF config_file.kind = "json" /\ config_file.data.secret_key # NoSecret
    THEN Loaded(config_file.data, config_file, seq, FALSE, "file")
    ELSE IF config_file.kind = "json"
    THEN LET keyed == [config_file.data EXCEPT
                          !.secret_key = generate_secret_key(seq + 1)]
         IN IF outcome = "error" THEN LoadDefaults(seq + 1, outcome)
            ELSE Loaded(keyed, FileAfter(keyed, outcome), seq + 1, FALSE, "file")
    ELSE LoadDefaults(seq, outcome)

\* settings.get_auth_settings()
get_auth_settings(outcome) ==
    LET loaded == load_auth_settings(outcome) IN
    /\ loaded.seq <= MaxSeq
    /\ settings' = loaded.settings
    /\ cached' = TRUE
    /\ config_file' = loaded.file
    /\ seq' = loaded.seq
    /\ last' = Resp("get_auth_settings", NoUser, "", "", loaded.settings, NoRaw,
                    IF loaded.raised THEN 500 ELSE 200, loaded.from,
                    loaded.settings.secret_key)

\* settings.get_jwt_secret_key(): the secret of the settings loaded; one is
\* generated and saved when they hold none.
get_jwt_secret_key(outcome) ==
    LET loaded == load_auth_settings(outcome)
        missing == ~loaded.raised /\ loaded.settings.secret_key = NoSecret
        keyed == IF missing
                 THEN [loaded.settings EXCEPT
                          !.secret_key = generate_secret_key(loaded.seq + 1)]
                 ELSE loaded.settings
        drawn == IF missing THEN loaded.seq + 1 ELSE loaded.seq
        raised == loaded.raised \/ (missing /\ outcome = "error")
    IN
    /\ drawn <= MaxSeq
    /\ settings' = keyed
    /\ cached' = TRUE
    /\ config_file' = IF missing THEN FileAfter(keyed, outcome) ELSE loaded.file
    /\ seq' = drawn
    /\ last' = Resp("get_jwt_secret_key", NoUser, "", "", keyed, NoRaw,
                    IF raised THEN 500 ELSE 200, loaded.from, keyed.secret_key)

update_admin_auth_settings(admin, require_auth, dispatcharr_enabled) ==
    IF ~require_admin(admin)
    THEN /\ last' = Resp("settings", admin, "", "", NoToken, NoRaw, 403,
                         "Admin access required", NoToken)
         /\ UNCHANGED <<settings, cached, config_file>>
    ELSE /\ save_auth_settings([settings EXCEPT
                                   !.require_auth = Apply(@, require_auth),
                                   !.dispatcharr_enabled = Apply(@, dispatcharr_enabled)],
                               "saved")
         /\ last' = Resp("settings", admin, "", "", NoToken, NoRaw, 200,
                         "Settings updated", NoToken)

\* The users a request can be authenticated as (get_current_user).
CurrentUsers == {u \in DOMAIN users : users[u].is_active}

UpdateSettings ==
    /\ \E admin \in CurrentUsers, dispatcharr_enabled \in {"true", "false"} :
           update_admin_auth_settings(admin, "unset", dispatcharr_enabled)
    /\ UNCHANGED <<users, identities, sessions, resetTokens, now, ticks, seq, issued,
                   mailed, rotated, redeemed, inflight, logs>>

\* GET /api/auth/admin/settings
get_admin_auth_settings(admin_user) ==
    IF ~require_admin(admin_user)
    THEN last' = Resp("get_settings", admin_user, "", "", NoToken, NoRaw, 403,
                      "Admin access required", NoToken)
    ELSE last' = Resp("get_settings", admin_user, "",
                      IF settings.dispatcharr_enabled THEN "true" ELSE "false", NoToken,
                      IF settings.require_auth THEN "true" ELSE "false", 200, "", NoToken)

GetSettings ==
    /\ \E admin_user \in CurrentUsers : get_admin_auth_settings(admin_user)
    /\ UNCHANGED <<users, identities, sessions, resetTokens, now, ticks, seq, issued,
                   mailed, rotated, redeemed, inflight, logs, settings, cached, config_file>>

\* GET /api/auth/admin/users: the response's total is the number of users.
list_users(admin_user) ==
    IF ~require_admin(admin_user)
    THEN last' = Resp("list_users", admin_user, "", "", NoToken, NoRaw, 403,
                      "Admin access required", NoToken)
    ELSE last' = Resp("list_users", admin_user, ToString(Cardinality(DOMAIN users)), "",
                      NoToken, NoRaw, 200, "", NoToken)

ListUsers ==
    /\ \E admin_user \in CurrentUsers : list_users(admin_user)
    /\ UNCHANGED <<users, identities, sessions, resetTokens, now, ticks, seq, issued,
                   mailed, rotated, redeemed, inflight, logs, settings, cached, config_file>>

\* GET /api/auth/admin/users/{user_id}
get_user(admin_user, user_id) ==
    IF ~require_admin(admin_user)
    THEN last' = Resp("get_user", admin_user, ToString(user_id), "", NoToken, NoRaw, 403,
                      "Admin access required", NoToken)
    ELSE IF user_id \notin DOMAIN users
    THEN last' = Resp("get_user", admin_user, ToString(user_id), "", NoToken, NoRaw, 404,
                      "User not found", NoToken)
    ELSE last' = Resp("get_user", admin_user, ToString(user_id), users[user_id].username,
                      NoToken, NoRaw, 200, "", NoToken)

\* -------------------------------------------------------- change_password
\* Mutant: the current password is not verified.
ChangePasswordCheck_SkipsCurrent(current_user, current_password, new_password) ==
    IF ~validate_password(new_password, users[current_user].username)
    THEN "weak password"
    ELSE "ok"

\* The checks of change_password: "ok", or the detail of the error raised.
ChangePasswordCheck(current_user, current_password, new_password) ==
    IF users[current_user].password_hash = NoHash
       \/ ~verify_password(current_password, users[current_user].password_hash)
    THEN "Current password is incorrect"
    ELSE IF ~validate_password(new_password, users[current_user].username)
    THEN "weak password"
    ELSE "ok"

\* POST /api/auth/change-password
change_password(current_user, current_password, new_password) ==
    LET check == ChangePasswordCheck(current_user, current_password, new_password) IN
    IF check # "ok"
    THEN /\ last' = Resp("change_password", current_user, current_password, new_password,
                         NoToken, NoRaw,
                         IF check = "Current password is incorrect" THEN 401 ELSE 422,
                         check, NoToken)
         /\ UNCHANGED <<users, seq>>
    ELSE /\ seq < MaxSalts
         /\ users' = [users EXCEPT ![current_user].password_hash =
                                       hash_password(new_password, seq + 1)]
         /\ seq' = seq + 1
         /\ last' = Resp("change_password", current_user, current_password, new_password,
                         NoToken, NoRaw, 200, "Password changed successfully", NoToken)

ChangePassword ==
    /\ \E current_user \in CurrentUsers, current_password \in Passwords,
          new_password \in Passwords :
           change_password(current_user, current_password, new_password)
    /\ UNCHANGED <<identities, sessions, resetTokens, now, ticks, issued, mailed, rotated,
                   redeemed, inflight, logs, settings, cached, config_file>>

\* ---------------------------------------------------------------- profile
\* Mutant: the address is not looked up among the other users.
ProfileCheck_SkipsLookup(current_user, email) == "ok"

\* The check of update_current_user_profile: "ok", or the detail of the error.
ProfileCheck(current_user, email) ==
    IF /\ email # "unset"
       /\ \E u \in DOMAIN users : users[u].email = email /\ u # current_user
    THEN "Email already in use"
    ELSE "ok"

\* PUT /api/auth/me; an e-mail that is "unset" (None) is left alone.
update_current_user_profile(current_user, email) ==
    LET check == ProfileCheck(current_user, email)
        updated == [users EXCEPT ![current_user].email =
                                     IF email = "unset" THEN @ ELSE email]
    IN
    IF check # "ok"
    THEN /\ last' = Resp("update_profile", current_user, email, "", NoToken, NoRaw, 409,
                         check, NoToken)
         /\ users' = users
    ELSE IF ~UniqueUsers(updated)
    THEN \* the commit raises IntegrityError
         /\ last' = Resp("update_profile", current_user, email, "", NoToken, NoRaw, 500,
                         "Internal Server Error", NoToken)
         /\ users' = users
    ELSE /\ users' = updated
         /\ last' = Resp("update_profile", current_user, email, "", NoToken, NoRaw, 200,
                         "Profile updated", NoToken)

UpdateProfile ==
    /\ \E current_user \in CurrentUsers, email \in Emails \cup {"unset"} :
           update_current_user_profile(current_user, email)
    /\ UNCHANGED <<identities, sessions, resetTokens, now, ticks, seq, issued, mailed,
                   rotated, redeemed, inflight, logs, settings, cached, config_file>>

\* ------------------------------------------------------- delegated login
\* What DispatcharrClient.authenticate answers: an identity, or a failure.
AuthResult(user_id, username, email) ==
    [kind |-> "ok", user_id |-> user_id, username |-> username, email |-> email]
AuthFailure(kind) == [kind |-> kind, user_id |-> "", username |-> "", email |-> ""]
ProviderFailures == {"bad_credentials", "timeout", "connection", "unexpected"}
ProviderAnswers ==
    {AuthResult(x, n, e) : x \in ExternalIds, n \in ProviderUsernames, e \in ProviderEmails}
        \cup {AuthFailure(k) : k \in ProviderFailures}

\* Mutant: every failure of the provider is answered as bad credentials.
ProviderStatus_Conflates(kind) ==
    IF kind \in {"bad_credentials", "timeout", "connection"} THEN 401 ELSE 500

ProviderStatus(kind) ==
    IF kind = "bad_credentials" THEN 401
    ELSE IF kind \in {"timeout", "connection"} THEN 503
    ELSE 500

ProviderDetail(kind) ==
    IF kind = "bad_credentials" THEN "Invalid credentials"
    ELSE IF kind = "timeout" THEN "Dispatcharr connection timeout"
    ELSE IF kind = "connection" THEN "Cannot connect to Dispatcharr"
    ELSE "Authentication error"

DispatcharrIdentityOf(external_id) ==
    First({i \in DOMAIN identities :
              /\ identities[i].provider = "dispatcharr"
              /\ identities[i].external_id = external_id})

LegacyDispatcharrUser(external_id) ==
    First({u \in DOMAIN users :
              /\ users[u].auth_provider = "dispatcharr"
              /\ users[u].external_id = external_id})

\* Whether some identity row already holds (provider, identifier).
IdentifierClaimed(provider, identifier) ==
    \E i \in DOMAIN identities :
        /\ identities[i].provider = provider
        /\ identities[i].identifier = identifier

\* What the store does with an INSERT of a UserIdentity row: the handlers make no
\* check of (provider, identifier) for a dispatcharr identity, so a row that
\* repeats one is accepted (TRUE) by a table without the uniqueness constraint
\* and refused (FALSE, an integrity error the handler does not catch) by a table
\* that declares it.
StoreOutcomes(provider, identifier) ==
    IF IdentifierClaimed(provider, identifier) THEN {TRUE, FALSE} ELSE {TRUE}

IntegrityError(op, uid, username, provider) ==
    Resp(op, uid, username, "", NoToken, provider, 500, "Internal Server Error", NoToken)

\* value or fallback, as Python's `or` on an optional string.
Or(value, fallback) == IF value # "" THEN value ELSE fallback

\* The username a new delegated user gets.
NewUsername(username) ==
    IF \E u \in DOMAIN users : users[u].username = username
    THEN "disp_" \o username ELSE username

\* The tables after the resolve-or-create step for the provider's answer, and the
\* user resolved: [users, identities, uid].
ResolveOrCreate(auth) ==
    LET identity == DispatcharrIdentityOf(auth.user_id)
        legacy == LegacyDispatcharrUser(auth.user_id)
        new_uid == NextId(users)
    IN
    IF identity # 0
    THEN LET uid == identities[identity].user_id IN
         [users |-> [users EXCEPT ![uid].email = Or(auth.email, @)],
          identities |-> [identities EXCEPT ![identity].last_used_at = now],
          uid |-> uid]
    ELSE IF legacy # 0
    THEN [users |-> [users EXCEPT ![legacy].email = Or(auth.email, @)],
          identities |-> identities,
          uid |-> legacy]
    ELSE [users |-> Insert(users,
                       [username |-> NewUsername(auth.username), email |-> auth.email,
                        password_hash |-> NoHash, auth_provider |-> "dispatcharr",
                        external_id |-> auth.user_id, is_admin |-> FALSE,
                        is_active |-> TRUE, last_login_at |-> NoTime]),
          identities |-> Insert(identities,
                       [user_id |-> new_uid, provider |-> "dispatcharr",
                        identifier |-> auth.username, external_id |-> auth.user_id,
                        last_used_at |-> NoTime]),
          uid |-> new_uid]

\* POST /api/auth/dispatcharr/login; auth is the provider's answer, which the
\* response record keeps (its kind and its external id).
dispatcharr_login(username, auth) ==
    IF ~settings.dispatcharr_enabled
    THEN /\ last' = Resp("dispatcharr_login", NoUser, username, auth.kind, NoToken, auth.user_id, 404,
                         "Dispatcharr authentication is not enabled", NoToken)
         /\ UNCHANGED <<users, identities, sessions, seq, issued>>
    ELSE IF auth.kind # "ok"
    THEN /\ last' = Resp("dispatcharr_login", NoUser, username, auth.kind, NoToken, auth.user_id,
                         ProviderStatus(auth.kind), ProviderDetail(auth.kind), NoToken)
         /\ UNCHANGED <<users, identities, sessions, seq, issued>>
    ELSE IF /\ DispatcharrIdentityOf(auth.user_id) # 0
            /\ identities[DispatcharrIdentityOf(auth.user_id)].user_id \notin DOMAIN users
    THEN \* identity.user is None: the update of user.email raises
         /\ last' = Resp("dispatcharr_login", NoUser, username, auth.kind, NoToken, auth.user_id, 500,
                         "Internal Server Error", NoToken)
         /\ UNCHANGED <<users, identities, sessions, seq, issued>>
    ELSE LET r == ResolveOrCreate(auth)
             refresh_token == create_refresh_token(r.uid, seq + 1)
             creates == DOMAIN r.identities # DOMAIN identities
         IN
         /\ Cardinality(DOMAIN r.users) <= MaxUsers
         /\ \A i \in DOMAIN r.identities : i <= MaxIdentities
         /\ \E accepted \in IF creates THEN StoreOutcomes("dispatcharr", auth.username)
                                       ELSE {TRUE} :
            IF ~accepted \/ (creates /\ ~UniqueUsers(r.users))
            THEN \* the flush of the new rows raises IntegrityError
                 /\ last' = Resp("dispatcharr_login", NoUser, username, auth.kind, NoToken,
                                 auth.user_id, 500, "Internal Server Error", NoToken)
                 /\ UNCHANGED <<users, identities, sessions, seq, issued>>
            ELSE IF ~r.users[r.uid].is_active
            THEN /\ last' = Resp("dispatcharr_login", r.uid, username, auth.kind, NoToken, auth.user_id,
                                 401, "User account is disabled", NoToken)
                 /\ UNCHANGED <<users, identities, sessions, seq, issued>>
            ELSE IF ~UniqueUsers(r.users)
            THEN \* the commit of the refreshed e-mail raises IntegrityError
                 /\ last' = Resp("dispatcharr_login", NoUser, username, auth.kind, NoToken,
                                 auth.user_id, 500, "Internal Server Error", NoToken)
                 /\ UNCHANGED <<users, identities, sessions, seq, issued>>
            ELSE /\ Cardinality(DOMAIN sessions) < MaxSessions
                 /\ users' = [r.users EXCEPT ![r.uid].last_login_at = now]
                 /\ identities' = r.identities
                 /\ sessions' = Insert(sessions, NewSession(r.uid, refresh_token))
                 /\ seq' = seq + 1
                 /\ issued' = issued \cup {refresh_token}
                 /\ last' = Resp("dispatcharr_login", r.uid, username, auth.kind, NoToken, auth.user_id,
                                 200, "Login successful", refresh_token)

DispatcharrLogin ==
    /\ \E auth \in ProviderAnswers :
           dispatcharr_login(IF auth.kind = "ok" THEN auth.username ELSE "bob", auth)
    /\ UNCHANGED <<resetTokens, now, ticks, mailed, rotated, redeemed, inflight, logs,
                   settings, cached, config_file>>

\* A delegated login of the one provider account "x1", which the provider
\* authenticates.
DelegatedSignIn ==
    /\ \E n \in ProviderUsernames, e \in ProviderEmails :
           dispatcharr_login(n, AuthResult("x1", n, e))
    /\ UNCHANGED <<resetTokens, now, ticks, mailed, rotated, redeemed, inflight, logs,
                   settings, cached, config_file>>

\* Two provider accounts whose usernames meet the local account "admin": one is
\* called "admin", the other is called what the prefix makes of it. Neither has
\* an e-mail address.
Namesakes == {AuthResult("x1", "disp_admin", ""), AuthResult("x2", "admin", "")}

DelegatedNamesake ==
    /\ \E auth \in Namesakes : dispatcharr_login(auth.username, auth)
    /\ UNCHANGED <<resetTokens, now, ticks, mailed, rotated, redeemed, inflight, logs,
                   settings, cached, config_file>>

\* A delegated login of the provider account "x1", whose e-mail address at the
\* provider is any of the addresses, or none.
DelegatedMail ==
    /\ \E email \in Emails \cup {""} :
           dispatcharr_login("bob", AuthResult("x1", "bob", email))
    /\ UNCHANGED <<resetTokens, now, ticks, mailed, rotated, redeemed, inflight, logs,
                   settings, cached, config_file>>

\* ------------------------------------------------------ linked identities
IdentitiesOf(uid) == {i \in DOMAIN identities : identities[i].user_id = uid}

add_user_identity(user_id, provider, identifier, external_id) ==
    Insert(identities,
           [user_id |-> user_id, provider |-> provider, identifier |-> identifier,
            external_id |-> external_id, last_used_at |-> NoTime])

\* Mutant: a second identity for a provider the user already has is not refused.
LinkCheck_AllowsSecond(current_user, provider, username, password, auth) ==
    IF provider = "local"
    THEN IF password = "" THEN "Password is required for local linking"
         ELSE IF LocalIdentityOf(username) # 0
         THEN "This local username is already linked to another account"
         ELSE "ok"
    ELSE IF provider = "dispatcharr"
    THEN IF ~settings.dispatcharr_enabled
         THEN "Dispatcharr authentication is not enabled"
         ELSE IF auth.kind = "bad_credentials" THEN "Dispatcharr authentication failed"
         ELSE IF auth.kind # "ok" THEN "Cannot connect to Dispatcharr"
         ELSE IF DispatcharrIdentityOf(auth.user_id) # 0
         THEN "This Dispatcharr account is already linked to another user"
         ELSE "ok"
    ELSE "Linking not supported for provider: " \o provider

\* The checks of link_identity: "ok", or the detail of the error raised.
LinkCheck(current_user, provider, username, password, auth) ==
    IF \E i \in IdentitiesOf(current_user) : identities[i].provider = provider
    THEN "You already have a " \o provider \o " identity linked"
    ELSE IF provider = "local"
    THEN IF password = "" THEN "Password is required for local linking"
         ELSE IF LocalIdentityOf(username) # 0
         THEN "This local username is already linked to another account"
         ELSE "ok"
    ELSE IF provider = "dispatcharr"
    THEN IF ~settings.dispatcharr_enabled
         THEN "Dispatcharr authentication is not enabled"
         ELSE IF auth.kind = "bad_credentials" THEN "Dispatcharr authentication failed"
         ELSE IF auth.kind # "ok" THEN "Cannot connect to Dispatcharr"
         ELSE IF DispatcharrIdentityOf(auth.user_id) # 0
         THEN "This Dispatcharr account is already linked to another user"
         ELSE "ok"
    ELSE "Linking not supported for provider: " \o provider

LinkStatus(detail) ==
    IF detail = "ok" THEN 200
    ELSE IF detail \in {"This local username is already linked to another account",
                        "This Dispatcharr account is already linked to another user",
                        "You already have a local identity linked",
                        "You already have a dispatcharr identity linked",
                        "You already have a saml identity linked"} THEN 409
    ELSE IF detail = "Dispatcharr authentication is not enabled" THEN 404
    ELSE IF detail = "Dispatcharr authentication failed" THEN 401
    ELSE IF detail = "Cannot connect to Dispatcharr" THEN 503
    ELSE 400

\* POST /api/auth/identities/link; auth is the provider's answer (provider
\* dispatcharr only).
link_identity(current_user, provider, username, password, auth) ==
    LET check == LinkCheck(current_user, provider, username, password, auth) IN
    IF check # "ok"
    THEN /\ last' = Resp("link", current_user, username, password, NoToken, provider,
                         LinkStatus(check), check, NoToken)
         /\ UNCHANGED <<users, identities, seq>>
    ELSE /\ NextId(identities) <= MaxIdentities
         /\ IF provider = "local"
            THEN /\ seq < MaxSalts
                 /\ users' = [users EXCEPT ![current_user].password_hash =
                                               hash_password(password, seq + 1)]
                 /\ seq' = seq + 1
                 /\ identities' = add_user_identity(current_user, "local", username, "")
                 /\ last' = Resp("link", current_user, username, password, NoToken,
                                 provider, 200, "Identity linked successfully", NoToken)
            ELSE \E accepted \in StoreOutcomes("dispatcharr", auth.username) :
                 IF ~accepted
                 THEN /\ last' = IntegrityError("link", current_user, username, provider)
                      /\ UNCHANGED <<users, identities, seq>>
                 ELSE /\ identities' = add_user_identity(current_user, "dispatcharr",
                                                         auth.username, auth.user_id)
                      /\ UNCHANGED <<users, seq>>
                      /\ last' = Resp("link", current_user, username, password, NoToken,
                                      provider, 200, "Identity linked successfully",
                                      NoToken)

LinkLocal ==
    /\ \E current_user \in CurrentUsers, username \in LinkUsernames,
          password \in LinkPasswords :
           link_identity(current_user, "local", username, password, AuthFailure("unexpected"))
    /\ UNCHANGED <<sessions, resetTokens, now, ticks, issued, mailed, rotated, redeemed,
                   inflight, logs, settings, cached, config_file>>

LinkDispatcharr ==
    /\ \E current_user \in CurrentUsers, auth \in ProviderAnswers \ {AuthFailure("unexpected")} :
           link_identity(current_user, "dispatcharr",
                         IF auth.kind = "ok" THEN auth.username ELSE "bob", "secret", auth)
    /\ UNCHANGED <<sessions, resetTokens, now, ticks, issued, mailed, rotated, redeemed,
                   inflight, logs, settings, cached, config_file>>

LinkOther ==
    /\ \E current_user \in CurrentUsers :
           link_identity(current_user, "saml", "bob", "secret", AuthFailure("unexpected"))
    /\ UNCHANGED <<sessions, resetTokens, now, ticks, issued, mailed, rotated, redeemed,
                   inflight, logs, settings, cached, config_file>>

\* Mutant: the last identity may be unlinked.
UnlinkCheck_AllowsLast(current_user, identity_id) ==
    IF identity_id \notin IdentitiesOf(current_user) THEN "Identity not found"
    ELSE IF Cardinality(IdentitiesOf(current_user)) < 1
    THEN "Cannot unlink your last identity - you would be locked out"
    ELSE "ok"

\* The check of unlink_identity: "ok", or the detail of the error raised.
UnlinkCheck(current_user, identity_id) ==
    IF identity_id \notin IdentitiesOf(current_user) THEN "Identity not found"
    ELSE IF Cardinality(IdentitiesOf(current_user)) <= 1
    THEN "Cannot unlink your last identity - you would be locked out"
    ELSE "ok"

\* DELETE /api/auth/identities/{identity_id}
unlink_identity(current_user, identity_id) ==
    LET check == UnlinkCheck(current_user, identity_id) IN
    IF check # "ok"
    THEN /\ last' = Resp("unlink", current_user, ToString(identity_id), "", NoToken, NoRaw,
                         IF check = "Identity not found" THEN 404 ELSE 400, check, NoToken)
         /\ identities' = identities
    ELSE /\ identities' = Delete(identities, {identity_id})
         /\ last' = Resp("unlink", current_user, ToString(identity_id), "", NoToken, NoRaw,
                         200, "Identity unlinked successfully", NoToken)

IdentityIds == 1..MaxIdentities

Unlink ==
    /\ \E current_user \in CurrentUsers, identity_id \in IdentityIds :
           unlink_identity(current_user, identity_id)
    /\ UNCHANGED <<users, sessions, resetTokens, now, ticks, seq, issued, mailed, rotated,
                   redeemed, inflight, logs, settings, cached, config_file>>

\* Whether remove_user_identity lets the removal go ahead.
RemoveAllowed(user_id) == ~(Cardinality(IdentitiesOf(user_id)) <= 1)

\* remove_user_identity(db, identity_id, user_id), committed by its caller; the
\* response's status is 200 for a return of True and 400 for False.
remove_user_identity(identity_id, user_id) ==
    LET hit == {i \in IdentitiesOf(user_id) : i = identity_id} IN
    IF ~RemoveAllowed(user_id)
    THEN /\ identities' = identities
         /\ last' = Resp("remove_identity", user_id, ToString(identity_id), "", NoToken,
                         NoRaw, 400, "False", NoToken)
    ELSE /\ identities' = Delete(identities, hit)
         /\ last' = Resp("remove_identity", user_id, ToString(identity_id), "", NoToken,
                         NoRaw, IF hit # {} THEN 200 ELSE 400,
                         IF hit # {} THEN "True" ELSE "False", NoToken)

RemoveIdentity ==
    /\ \E user_id \in DOMAIN users, identity_id \in IdentityIds :
           remove_user_identity(identity_id, user_id)
    /\ UNCHANGED <<users, sessions, resetTokens, now, ticks, seq, issued, mailed, rotated,
                   redeemed, inflight, logs, settings, cached, config_file>>

\* ------------------------------------------------------ admin: users
\* Mutant: the acting admin may demote and deactivate themselves.
UpdateUserCheck_AllowsSelf(admin_user, user_id, is_admin, is_active) ==
    IF ~require_admin(admin_user) THEN "Admin access required"
    ELSE IF user_id \notin DOMAIN users THEN "User not found"
    ELSE "ok"

\* The checks of update_user: "ok", or the detail of the error raised.
UpdateUserCheck(admin_user, user_id, is_admin, is_active) ==
    IF ~require_admin(admin_user) THEN "Admin access required"
    ELSE IF user_id \notin DOMAIN users THEN "User not found"
    ELSE IF is_admin = "false" /\ user_id = admin_user
    THEN "Cannot remove your own admin status"
    ELSE IF is_active = "false" /\ user_id = admin_user
    THEN "Cannot deactivate your own account"
    ELSE "ok"

\* The users table after update_user has assigned the fields given.
UpdatedUsers(user_id, is_admin, is_active, email) ==
    [users EXCEPT ![user_id].is_admin = Apply(@, is_admin),
                  ![user_id].is_active = Apply(@, is_active),
                  ![user_id].email = IF email = "unset" THEN @ ELSE email]

\* PUT /api/auth/admin/users/{user_id}; a field that is "unset" (None) is left
\* alone.
update_user(admin_user, user_id, is_admin, is_active, email) ==
    LET check == UpdateUserCheck(admin_user, user_id, is_admin, is_active) IN
    IF check # "ok"
    THEN /\ last' = Resp("update_user", admin_user, ToString(user_id), is_admin, NoToken,
                         is_active,
                         IF check = "Admin access required" THEN 403
                         ELSE IF check = "User not found" THEN 404 ELSE 400,
                         check, NoToken)
         /\ users' = users
    ELSE IF ~UniqueUsers(UpdatedUsers(user_id, is_admin, is_active, email))
    THEN \* the commit raises IntegrityError
         /\ last' = Resp("update_user", admin_user, ToString(user_id), is_admin, NoToken,
                         is_active, 500, "Internal Server Error", NoToken)
         /\ users' = users
    ELSE /\ users' = UpdatedUsers(user_id, is_admin, is_active, email)
         /\ last' = Resp("update_user", admin_user, ToString(user_id), is_admin, NoToken,
                         is_active, 200, "User updated", NoToken)

UserIds == 1..MaxUsers

GetUser ==
    /\ \E admin_user \in CurrentUsers, user_id \in UserIds : get_user(admin_user, user_id)
    /\ UNCHANGED <<users, identities, sessions, resetTokens, now, ticks, seq, issued,
                   mailed, rotated, redeemed, inflight, logs, settings, cached, config_file>>

\* The values of an optional boolean field of a request.
Optional == {"unset", "true", "false"}

UpdateUser ==
    /\ \E admin_user \in CurrentUsers, user_id \in UserIds, is_admin \in Optional,
          is_active \in Optional :
           update_user(admin_user, user_id, is_admin, is_active, "unset")
    /\ UNCHANGED <<identities, sessions, resetTokens, now, ticks, seq, issued, mailed,
                   rotated, redeemed, inflight, logs, settings, cached, config_file>>

DeleteUserCheck_AllowsSelf(admin_user, user_id) ==
    IF ~require_admin(admin_user) THEN "Admin access required"
    ELSE IF user_id \notin DOMAIN users THEN "User not found"
    ELSE "ok"

\* The checks of delete_user: "ok", or the detail of the error raised.
DeleteUserCheck(admin_user, user_id) ==
    IF ~require_admin(admin_user) THEN "Admin access required"
    ELSE IF user_id \notin DOMAIN users THEN "User not found"
    ELSE IF user_id = admin_user THEN "Cannot delete your own account"
    ELSE "ok"

\* session.delete(user): the identity rows the user owns are deleted with it
\* (the ownership rule of the data model).
CascadeIdentities(user_id) == Delete(identities, IdentitiesOf(user_id))

\* Mutant: the sessions of the deleted user are left in the table.
delete_user_KeepsSessions(admin_user, user_id) ==
    LET check == DeleteUserCheck(admin_user, user_id) IN
    IF check # "ok"
    THEN /\ last' = Resp("delete_user", admin_user, ToString(user_id), "", NoToken, NoRaw,
                         IF check = "Admin access required" THEN 403
                         ELSE IF check = "User not found" THEN 404 ELSE 400,
                         check, NoToken)
         /\ UNCHANGED <<users, identities, sessions, resetTokens>>
    ELSE /\ seq < MaxSeq
         /\ sessions' = sessions
         /\ resetTokens' = Delete(resetTokens,
                               {t \in DOMAIN resetTokens : resetTokens[t].user_id = user_id})
         /\ identities' = CascadeIdentities(user_id)
         /\ users' = Delete(users, {user_id})
         /\ last' = Resp("delete_user", admin_user, ToString(user_id), "", NoToken,
                         NoRaw, 200, "User deleted", NoToken)

\* DELETE /api/auth/admin/users/{user_id}
delete_user(admin_user, user_id) ==
    LET check == DeleteUserCheck(admin_user, user_id) IN
    IF check # "ok"
    THEN /\ last' = Resp("delete_user", admin_user, ToString(user_id), "", NoToken, NoRaw,
                         IF check = "Admin access required" THEN 403
                         ELSE IF check = "User not found" THEN 404 ELSE 400,
                         check, NoToken)
         /\ UNCHANGED <<users, identities, sessions, resetTokens>>
    ELSE /\ seq < MaxSeq
         /\ sessions' = Delete(sessions,
                               {x \in DOMAIN sessions : sessions[x].user_id = user_id})
         /\ resetTokens' = Delete(resetTokens,
                               {t \in DOMAIN resetTokens : resetTokens[t].user_id = user_id})
         /\ identities' = CascadeIdentities(user_id)
         /\ users' = Delete(users, {user_id})
         /\ last' = Resp("delete_user", admin_user, ToString(user_id), "", NoToken,
                         NoRaw, 200, "User deleted", NoToken)

DeleteUser ==
    /\ \E admin_user \in CurrentUsers, user_id \in UserIds : delete_user(admin_user, user_id)
    /\ UNCHANGED <<now, ticks, seq, issued, mailed, rotated, redeemed, inflight, logs,
                   settings, cached, config_file>>

\* update_user with an e-mail address and no other field.
UpdateUserEmail ==
    /\ \E admin_user \in CurrentUsers, user_id \in UserIds, email \in Emails :
           update_user(admin_user, user_id, "unset", "unset", email)
    /\ UNCHANGED <<identities, sessions, resetTokens, now, ticks, seq, issued, mailed,
                   rotated, redeemed, inflight, logs, settings, cached, config_file>>

Promote ==
    /\ \E admin_user \in CurrentUsers, user_id \in UserIds :
           update_user(admin_user, user_id, "true", "unset", "unset")
    /\ UNCHANGED <<identities, sessions, resetTokens, now, ticks, seq, issued, mailed,
                   rotated, redeemed, inflight, logs, settings, cached, config_file>>

SetActive ==
    /\ \E admin_user \in CurrentUsers, user_id \in UserIds, is_active \in {"true", "false"} :
           update_user(admin_user, user_id, "unset", is_active, "unset")
    /\ UNCHANGED <<identities, sessions, resetTokens, now, ticks, seq, issued, mailed,
                   rotated, redeemed, inflight, logs, settings, cached, config_file>>

\* ------------------------------------------------- the session lifecycle
Next ==
    \/ Setup
    \/ Login
    \/ Refresh
    \/ Logout
    \/ Tick(HalfHour)
    \/ Tick(SevenDays)

Spec == Init /\ [][Next]_vars

\* ---------------------------------------------------- the reset lifecycle
NextReset ==
    \/ Setup
    \/ Forgot
    \/ Reset
    \/ Tick(HalfHour)
    \/ Tick(TwoHours)

SpecReset == Init /\ [][NextReset]_vars

\* ------------------------------------------------- accounts and identities
NextIdentity ==
    \/ Setup
    \/ UpdateSettings
    \/ DispatcharrLogin
    \/ LinkLocal
    \/ LinkDispatcharr
    \/ LinkOther
    \/ Unlink
    \/ RemoveIdentity

SpecIdentity == Init /\ [][NextIdentity]_vars

\* ------------------------------------------------- local login of any account
NextLogin ==
    \/ Setup
    \/ UpdateSettings
    \/ DispatcharrLogin
    \/ LinkLocal
    \/ SetActive
    \/ Login

SpecLogin == Init /\ [][NextLogin]_vars

\* ------------------------------------------------- administration of users
NextAdmin ==
    \/ Setup
    \/ UpdateSettings
    \/ DelegatedSignIn
    \/ ForgotDelivered
    \/ UpdateUser
    \/ DeleteUser

SpecAdmin == Init /\ [][NextAdmin]_vars

\* ------------------------------------------------- colliding usernames
NextNamesake ==
    \/ Setup
    \/ UpdateSettings
    \/ DelegatedNamesake
    \/ SetActive
    \/ Login
    \/ Logout

SpecNamesake == Init /\ [][NextNamesake]_vars

\* ------------------------------------------------- e-mail addresses
NextEmail ==
    \/ Setup
    \/ UpdateSettings
    \/ DelegatedMail
    \/ UpdateProfile
    \/ UpdateUserEmail

SpecEmail == Init /\ [][NextEmail]_vars

\* ------------------------------------------------- first-run setup
NextSetup ==
    \/ Setup
    \/ SetupRequired
    \/ UpdateSettings
    \/ DispatcharrLogin
    \/ Login
    \/ DeleteUser

SpecSetup == Init /\ [][NextSetup]_vars

\* ------------------------------------------------- deletion of accounts
\* A refresh with a cookie that was set.
RefreshIssued ==
    /\ \E refresh_token \in Presentable : refresh_tokens(refresh_token)
    /\ UNCHANGED <<users, identities, resetTokens, now, ticks, mailed, redeemed, inflight,
                   logs, settings, cached, config_file>>

NextDelete ==
    \/ Setup
    \/ UpdateSettings
    \/ DelegatedSignIn
    \/ ForgotDelivered
    \/ Promote
    \/ DeleteUser
    \/ RefreshIssued

SpecDelete == Init /\ [][NextDelete]_vars

\* ------------------------------------------------- the admin endpoints
NextAccess ==
    \/ Setup
    \/ UpdateSettings
    \/ GetSettings
    \/ DelegatedSignIn
    \/ ListUsers
    \/ GetUser
    \/ UpdateUser
    \/ DeleteUser

SpecAccess == Init /\ [][NextAccess]_vars

\* ------------------------------------------------- changing one's password
NextPassword ==
    \/ Setup
    \/ UpdateSettings
    \/ DispatcharrLogin
    \/ ChangePassword
    \/ Login

SpecPassword == Init /\ [][NextPassword]_vars

\* ------------------------------------- reset requests for any kind of account
NextForgot ==
    \/ Setup
    \/ UpdateSettings
    \/ DispatcharrLogin
    \/ Promote
    \/ SetActive
    \/ Forgot

SpecForgot == Init /\ [][NextForgot]_vars

\* ------------------------------------- redemption for any kind of account
NextRedeem ==
    \/ Setup
    \/ UpdateSettings
    \/ DelegatedSignIn
    \/ Promote
    \/ SetActive
    \/ ForgotDelivered
    \/ Reset

SpecRedeem == Init /\ [][NextRedeem]_vars

\* ------------------------------------------------------ concurrent requests
\* Requests served by different workers over the same database. A request that
\* passes its checks is suspended between its query and its commit: the handlers
\* take no row lock (no SELECT ... FOR UPDATE) and their UPDATE is by primary key,
\* without a condition on the value read.
Requests == 1..MaxRequests

Suspended(op, tok, raw, pw, row, uid) ==
    [op |-> op, tok |-> tok, rt |-> raw, pw |-> pw, row |-> row, uid |-> uid,
     pc |-> "queried", status |-> 0, out |-> NoToken]

Done(req, status, out) == [req EXCEPT !.pc = "done", !.status = status, !.out = out]

\* refresh_tokens up to the user lookup (the checks before the rotation).
RefreshBegin(r, refresh_token) ==
    LET check == RefreshCheck(refresh_token)
        req == Suspended("refresh", refresh_token, NoRaw, "", SessionOf(refresh_token),
                         refresh_token.sub)
    IN
    /\ r \notin DOMAIN inflight
    /\ IF check # "ok"
       THEN /\ inflight' = inflight @@ (r :> Done(req, 401, NoToken))
            /\ last' = Resp("refresh", NoUser, "", "", refresh_token, NoRaw, 401, check,
                            NoToken)
       ELSE /\ inflight' = inflight @@ (r :> req)
            /\ last' = last
    /\ UNCHANGED <<users, identities, sessions, resetTokens, now, ticks, seq, issued,
                   mailed, rotated, redeemed, logs, settings, cached, config_file>>

\* refresh_tokens from the rotation to the commit, on the row the request loaded.
RefreshCommit(r) ==
    /\ r \in DOMAIN inflight
    /\ inflight[r].op = "refresh"
    /\ inflight[r].pc = "queried"
    /\ inflight[r].row \in DOMAIN sessions
    /\ LET new_refresh_token == create_refresh_token(inflight[r].uid, seq + 1) IN
       /\ sessions' = RotatedSession(inflight[r].row, new_refresh_token)
       /\ seq' = seq + 1
       /\ issued' = issued \cup {new_refresh_token}
       /\ rotated' = rotated \cup {inflight[r].tok}
       /\ inflight' = [inflight EXCEPT ![r] = Done(@, 200, new_refresh_token)]
       /\ last' = Resp("refresh", inflight[r].uid, "", "", inflight[r].tok, NoRaw, 200,
                       "Token refreshed", new_refresh_token)
    /\ UNCHANGED <<users, identities, resetTokens, now, ticks, mailed, redeemed, logs, settings, cached, config_file>>

\* reset_password up to the password validation (the checks before the update).
ResetBegin(r, raw, new_password) ==
    LET check == ResetCheck(raw, new_password)
        t == ValidResetToken(raw)
        req == Suspended("reset", NoToken, raw, new_password, t,
                         IF t = 0 THEN NoUser ELSE resetTokens[t].user_id)
    IN
    /\ r \notin DOMAIN inflight
    /\ IF check # "ok"
       THEN /\ inflight' = inflight @@ (r :> Done(req, ResetStatus(check), NoToken))
            /\ last' = Resp("reset", NoUser, "", new_password, NoToken, raw,
                            ResetStatus(check), check, NoToken)
       ELSE /\ inflight' = inflight @@ (r :> req)
            /\ last' = last
    /\ UNCHANGED <<users, identities, sessions, resetTokens, now, ticks, seq, issued,
                   mailed, rotated, redeemed, logs, settings, cached, config_file>>

\* reset_password from the password update to the commit, on the rows the request
\* loaded.
ResetCommit(r) ==
    /\ r \in DOMAIN inflight
    /\ inflight[r].op = "reset"
    /\ inflight[r].pc = "queried"
    /\ inflight[r].row \in DOMAIN resetTokens
    /\ inflight[r].uid \in DOMAIN users
    /\ users' = [users EXCEPT ![inflight[r].uid].password_hash =
                                  hash_password(inflight[r].pw, seq + 1)]
    /\ resetTokens' = [resetTokens EXCEPT ![inflight[r].row].used_at = now]
    /\ seq' = seq + 1
    /\ redeemed' = redeemed \cup {inflight[r].rt}
    /\ inflight' = [inflight EXCEPT ![r] = Done(@, 200, NoToken)]
    /\ last' = Resp("reset", inflight[r].uid, "", inflight[r].pw, NoToken, inflight[r].rt,
                    200, "Password reset successfully", NoToken)
    /\ UNCHANGED <<identities, sessions, now, ticks, issued, mailed, rotated, logs, settings, cached, config_file>>

BeginRefresh == \E r \in Requests, refresh_token \in Presentable : RefreshBegin(r, refresh_token)
CommitRefresh == \E r \in Requests : RefreshCommit(r)
BeginReset ==
    \E r \in Requests, raw \in PresentableRaw, new_password \in StrongPasswords :
        ResetBegin(r, raw, new_password)
CommitReset == \E r \in Requests : ResetCommit(r)

NextRefreshRace ==
    \/ Setup
    \/ Login
    \/ BeginRefresh
    \/ CommitRefresh

SpecRefreshRace == Init /\ [][NextRefreshRace]_vars

NextResetRace ==
    \/ Setup
    \/ Forgot
    \/ BeginReset
    \/ CommitReset

SpecResetRace == Init /\ [][NextResetRace]_vars

\* ------------------------------------------------------------------ claims
\* The step is a request `op` (every request writes `last`; the clock does not).
Request(op) == last'.op = op /\ ticks' = ticks

ReplayError == "Session not found or revoked"

\* C1, as stated: after a refresh presenting raw refresh token r has succeeded
\* once, every later refresh presenting r fails with the replay error, issues no
\* token and modifies no session row.
C1_ReplayAlwaysReplayError ==
    [][(Request("refresh") /\ last'.tok \in rotated) =>
           /\ last'.status = 401
           /\ last'.detail = ReplayError
           /\ last'.out = NoToken
           /\ sessions' = sessions
           /\ issued' = issued]_vars

\* C1, amended: after a refresh presenting raw refresh token r has succeeded once,
\* every later refresh presenting r fails, issues no token and modifies no session
\* row; the error is the replay error as long as r's own exp has not passed, and
\* the token-expired error afterwards.
C1_AntiReplay ==
    [][(Request("refresh") /\ last'.tok \in rotated) =>
           /\ last'.status = 401
           /\ last'.detail = IF last'.tok.exp < now THEN "Refresh token expired"
                             ELSE ReplayError
           /\ last'.out = NoToken
           /\ sessions' = sessions
           /\ issued' = issued]_vars

\* C1 witness: a rotated-away token was presented again and met the replay error.
C1_Witness ==
    /\ last.op = "refresh"
    /\ last.tok \in rotated
    /\ last.status = 401
    /\ last.detail = ReplayError

\* C10: logout always returns success, and a logout that presents no token, a
\* token matching no session, or the token of an already revoked session changes
\* no session state.
C10_LogoutIdempotent ==
    [][Request("logout") =>
           /\ last'.status = 200
           /\ last'.detail = "Logged out successfully"
           /\ \A s \in DOMAIN sessions :
                  sessions[s].refresh_token_hash # hash_token(last'.tok)
                      => sessions'[s] = sessions[s]
           /\ DOMAIN sessions' = DOMAIN sessions
           /\ ( \/ last'.tok = NoToken
                \/ \A s \in DOMAIN sessions :
                       sessions[s].refresh_token_hash = hash_token(last'.tok)
                           => sessions[s].is_revoked )
              => sessions' = sessions]_vars

\* C10 witness: a logout presenting a rotated-away token, which matches no
\* session, has been answered with success and the live session is untouched.
C10_Witness ==
    /\ last.op = "logout"
    /\ last.status = 200
    /\ last.tok \in rotated
    /\ \A s \in DOMAIN sessions : sessions[s].refresh_token_hash # hash_token(last.tok)
    /\ \E s \in DOMAIN sessions : ~sessions[s].is_revoked

\* The rows whose hash the raw reset token verifies against, used or not.
Matching(raw) ==
    {t \in DOMAIN resetTokens : verify_password(raw, resetTokens[t].token_hash)}

\* C3: a password-reset token is redeemable at most once in a sequential
\* execution: a used_at that is set stays as it is, and once reset_password has
\* succeeded with raw token t every later reset_password with t fails and changes
\* neither a password nor a token row.
C3_RedeemedOnce ==
    [][/\ \A t \in DOMAIN resetTokens :
              (resetTokens[t].used_at # NoTime /\ t \in DOMAIN resetTokens')
                  => resetTokens'[t].used_at = resetTokens[t].used_at
       /\ (Request("reset") /\ last'.rt \in redeemed) =>
              /\ last'.status = 400
              /\ users' = users
              /\ resetTokens' = resetTokens]_vars

\* C3 witness: a raw token that was redeemed has been presented again and refused.
C3_Witness ==
    /\ last.op = "reset"
    /\ last.rt \in redeemed
    /\ last.status = 400
    /\ \E t \in Matching(last.rt) : resetTokens[t].used_at # NoTime

\* C5: reset_password changes no password when every row matching the presented
\* token is used or expired; an unused expired token is refused with the error
\* citing expiry; an unused token presented no later than its expires_at is
\* accepted (the password is replaced when the owner is active and the new
\* password passes the policy).
C5_UsedOrExpiredNeverAuthorizes ==
    [][Request("reset") =>
           /\ (\A t \in Matching(last'.rt) :
                   resetTokens[t].used_at # NoTime \/ resetTokens[t].expires_at < now)
                 => /\ last'.status = 400
                    /\ users' = users
                    /\ resetTokens' = resetTokens
           /\ (\E t \in Matching(last'.rt) :
                   resetTokens[t].used_at = NoTime /\ resetTokens[t].expires_at < now)
                 => last'.detail = "Reset token has expired"
           /\ \A t \in Matching(last'.rt) :
                  ( /\ resetTokens[t].used_at = NoTime
                    /\ resetTokens[t].expires_at >= now
                    /\ resetTokens[t].user_id \in DOMAIN users
                    /\ users[resetTokens[t].user_id].is_active
                    /\ validate_password(last'.pw, users[resetTokens[t].user_id].username) )
                  => /\ last'.status = 200
                     /\ verify_password(last'.pw,
                                        users'[resetTokens[t].user_id].password_hash)
                     /\ resetTokens'[t].used_at = now]_vars

\* C5 witness: an unused token presented after its expires_at has been refused
\* with the error citing expiry.
C5_Witness ==
    /\ last.op = "reset"
    /\ last.detail = "Reset token has expired"
    /\ \E t \in Matching(last.rt) :
           resetTokens[t].used_at = NoTime /\ resetTokens[t].expires_at < now

\* C5 witness of the other half: an unused token presented half an hour after it
\* was issued has been accepted.
C5_WitnessAccepted ==
    /\ last.op = "reset"
    /\ last.status = 200
    /\ \E t \in Matching(last.rt) :
           resetTokens[t].used_at = resetTokens[t].expires_at - HalfHour

\* The identities of user u after the step.
IdentitiesAfter(u) == {i \in DOMAIN identities' : identities'[i].user_id = u}

\* C6: a user who has an identity still has one after every step; unlink_identity
\* and remove_user_identity fail and delete nothing when the user has exactly one
\* identity, and succeed, deleting the identity named, when the user has two or
\* more.
C6_KeepsAnIdentity ==
    [][/\ \A u \in DOMAIN users : IdentitiesOf(u) # {} => IdentitiesAfter(u) # {}
       /\ (Request("unlink") \/ Request("remove_identity")) =>
              /\ Cardinality(IdentitiesOf(last'.uid)) = 1
                     => /\ last'.status \in {400, 404}
                        /\ identities' = identities
              /\ \A i \in IdentitiesOf(last'.uid) :
                     (ToString(i) = last'.name /\ Cardinality(IdentitiesOf(last'.uid)) >= 2)
                         => /\ last'.status = 200
                            /\ identities' = Delete(identities, {i})]_vars

\* C6 witness: a user who linked a second identity has unlinked one and is left
\* with exactly one.
C6_Witness ==
    /\ last.op = "unlink"
    /\ last.status = 200
    /\ Cardinality(IdentitiesOf(last.uid)) = 1

\* C7: no two identity rows share (provider, external_id) with external_id set,
\* nor (provider, identifier), and link_identity refuses a request that would
\* repeat one with the conflict status, never with an error of the store.
C7_UniqueIdentities ==
    /\ \A i, j \in DOMAIN identities :
           (i # j /\ identities[i].provider = identities[j].provider)
               => /\ identities[i].identifier # identities[j].identifier
                  /\ ( \/ identities[i].external_id = ""
                       \/ identities[i].external_id # identities[j].external_id )
    /\ last.op = "link" => last.status \in {200, 400, 401, 404, 409, 503}

\* C8: a local login whose credential cannot be verified (no such user, no local
\* credential, no password hash or a wrong password) is answered with the one
\* generic error.
C8_GenericCredentialFailure ==
    [][Request("login") =>
           LET uid == ResolveLocalUser(last'.name) IN
           ( \/ uid = NoUser
             \/ (~has_local_identity(uid) /\ users[uid].auth_provider # "local")
             \/ ~verify_password(last'.pw, users[uid].password_hash) )
           => /\ last'.status = 401
              /\ last'.detail = "Invalid username or password"]_vars

\* C9: a local login succeeds only if the password verifies against the resolved
\* user's hash and the user is active; a success adds exactly one session, not
\* revoked, owned by that user and holding the hash of the refresh token issued;
\* a failure leaves the sessions and every last_login_at as they were.
C9_LoginIssuesOnlyIfVerified ==
    [][Request("login") =>
           LET uid == ResolveLocalUser(last'.name) IN
           IF last'.status = 200
           THEN /\ uid # NoUser
                /\ verify_password(last'.pw, users[uid].password_hash)
                /\ users[uid].is_active
                /\ last'.out.type = "refresh"
                /\ \E s \in DOMAIN sessions' \ DOMAIN sessions :
                       /\ DOMAIN sessions' = DOMAIN sessions \cup {s}
                       /\ sessions'[s].user_id = uid
                       /\ ~sessions'[s].is_revoked
                       /\ sessions'[s].refresh_token_hash = hash_token(last'.out)
                /\ \A s \in DOMAIN sessions : sessions'[s] = sessions[s]
           ELSE /\ sessions' = sessions
                /\ DOMAIN users' = DOMAIN users
                /\ \A u \in DOMAIN users :
                       users'[u].last_login_at = users[u].last_login_at]_vars

\* C9 witness: a login with the right password of an active user has been
\* answered with success and its session is in the table.
C9_Witness ==
    /\ last.op = "login"
    /\ last.status = 200
    /\ verify_password(last.pw, users[last.uid].password_hash)
    /\ \E s \in DOMAIN sessions :
           /\ sessions[s].user_id = last.uid
           /\ sessions[s].refresh_token_hash = hash_token(last.out)

\* C2: of the refresh requests that present the same refresh token and are
\* interleaved between the session lookup and the commit, at most one is issued a
\* new token pair.
C2_SingleWinner ==
    \A a, b \in DOMAIN inflight :
        ( /\ a # b
          /\ inflight[a].op = "refresh" /\ inflight[b].op = "refresh"
          /\ inflight[a].tok = inflight[b].tok
          /\ inflight[a].pc = "done" /\ inflight[b].pc = "done" )
        => ~(inflight[a].status = 200 /\ inflight[b].status = 200)

\* C4: of the reset_password requests that present the same raw reset token and
\* run concurrently, at most one succeeds in changing the password.
C4_SingleRedeemer ==
    \A a, b \in DOMAIN inflight :
        ( /\ a # b
          /\ inflight[a].op = "reset" /\ inflight[b].op = "reset"
          /\ inflight[a].rt = inflight[b].rt
          /\ inflight[a].pc = "done" /\ inflight[b].pc = "done" )
        => ~(inflight[a].status = 200 /\ inflight[b].status = 200)

\* The sessions, revoked or not, whose stored hash is that of token t.
SessionsHolding(t) ==
    {s \in DOMAIN sessions : sessions[s].refresh_token_hash = hash_token(t)}

\* C11: revocation is terminal: a session that is revoked stays revoked, and a
\* refresh presenting the token whose hash a revoked session holds fails and
\* changes no session.
C11_RevocationTerminal ==
    [][/\ \A s \in DOMAIN sessions :
              sessions[s].is_revoked
                  => (s \in DOMAIN sessions' /\ sessions'[s].is_revoked)
       /\ ( /\ Request("refresh")
            /\ \E s \in SessionsHolding(last'.tok) : sessions[s].is_revoked )
          => /\ last'.status = 401
             /\ last'.out = NoToken
             /\ sessions' = sessions]_vars

\* C11 witness: the token of a session revoked by logout, not yet expired, has
\* been presented for refresh and refused.
C11_Witness ==
    /\ last.op = "refresh"
    /\ last.status = 401
    /\ last.tok.exp >= now
    /\ \E s \in SessionsHolding(last.tok) : sessions[s].is_revoked

\* The live sessions holding the hash of token t whose expires_at has passed.
ExpiredSessionsHolding(t) ==
    {s \in SessionsHolding(t) : ~sessions[s].is_revoked /\ sessions[s].expires_at < now}

\* C12 as stated: a refresh against a session whose expires_at has passed fails
\* with the session-expired error and leaves the row unchanged.
C12_SessionExpiredError ==
    [][(Request("refresh") /\ ExpiredSessionsHolding(last'.tok) # {}) =>
           /\ last'.status = 401
           /\ last'.detail = "Session expired"
           /\ sessions' = sessions]_vars

\* C12: a refresh against a session whose expires_at has passed fails and leaves
\* every session row unchanged; the error is the token-expired one when the
\* presented token's own exp has passed, and the session-expired one otherwise.
C12_ExpiredSessionTerminal ==
    [][(Request("refresh") /\ ExpiredSessionsHolding(last'.tok) # {}) =>
           /\ last'.status = 401
           /\ last'.detail = IF last'.tok.exp < now THEN "Refresh token expired"
                             ELSE "Session expired"
           /\ last'.out = NoToken
           /\ sessions' = sessions]_vars

\* C12 witness: the token of a live session whose expires_at has passed has
\* been presented and refused.
C12_Witness ==
    /\ last.op = "refresh"
    /\ last.status = 401
    /\ ExpiredSessionsHolding(last.tok) # {}

\* C13: a token whose type claim is not "refresh" presented for refresh is
\* refused: no token is issued and no session row changes. The error is the
\* token-expired one when its exp has passed and the token-type one otherwise.
C13_AccessTokenRejected ==
    [][( /\ Request("refresh")
         /\ last'.tok # NoToken
         /\ last'.tok.type # "refresh" )
       => /\ last'.status = 401
          /\ last'.detail = IF last'.tok.exp < now THEN "Refresh token expired"
                            ELSE "Invalid token type"
          /\ last'.out = NoToken
          /\ issued' = issued
          /\ sessions' = sessions]_vars

\* C13 witness: an access token that has not expired has been presented for
\* refresh and refused, while the session issued with it is live.
C13_Witness ==
    /\ last.op = "refresh"
    /\ last.tok.type = "access"
    /\ last.tok.exp >= now
    /\ last.status = 401
    /\ \E s \in DOMAIN sessions : ~sessions[s].is_revoked /\ sessions[s].expires_at >= now

\* C14: a successful refresh issues a refresh token different from the one
\* presented; afterwards the session holds the hash of the new token and no
\* session holds the hash of the presented one.
C14_RotationIssuesNewToken ==
    [][(Request("refresh") /\ last'.status = 200) =>
           /\ last'.out # last'.tok
           /\ last'.out.type = "refresh"
           /\ \A s \in DOMAIN sessions' :
                  sessions'[s].refresh_token_hash # hash_token(last'.tok)
           /\ \E s \in DOMAIN sessions :
                  /\ sessions[s].refresh_token_hash = hash_token(last'.tok)
                  /\ sessions'[s].refresh_token_hash = hash_token(last'.out)
                  /\ sessions'[s].refresh_token_hash # sessions[s].refresh_token_hash]_vars

\* C14 witness: a refresh has succeeded and the session holds the new hash.
C14_Witness ==
    /\ last.op = "refresh"
    /\ last.status = 200
    /\ last.tok \in rotated
    /\ \E s \in DOMAIN sessions : sessions[s].refresh_token_hash = hash_token(last.out)

\* C15: forgot_password answers every request with the same success response,
\* whatever the e-mail address, the account behind it and the outcome of the
\* delivery.
C15_ForgotSameResponse ==
    [][Request("forgot") =>
           /\ last'.status = 200
           /\ last'.detail =
                  "If an account with that email exists, a password reset link has been sent."
           /\ last'.uid = NoUser
           /\ last'.out = NoToken
           /\ last'.rt = NoRaw]_vars

\* C15 witness: a request for an address that no user has was answered with
\* success, after a request for a known address had created a token.
C15_Witness ==
    /\ last.op = "forgot"
    /\ last.status = 200
    /\ UserByEmail(last.name) = 0
    /\ DOMAIN resetTokens # {}

\* C16: forgot_password creates a reset token row only for an active user of the
\* local provider, and that row is unused and expires one hour after issuance;
\* for every other address it changes nothing.
C16_TokenOnlyForActiveLocal ==
    [][Request("forgot") =>
           LET uid == UserByEmail(last'.name) IN
           IF uid # 0 /\ users[uid].is_active /\ users[uid].auth_provider = "local"
           THEN \E t \in DOMAIN resetTokens' \ DOMAIN resetTokens :
                    /\ DOMAIN resetTokens' = DOMAIN resetTokens \cup {t}
                    /\ \A o \in DOMAIN resetTokens : resetTokens'[o] = resetTokens[o]
                    /\ resetTokens'[t].user_id = uid
                    /\ resetTokens'[t].used_at = NoTime
                    /\ resetTokens'[t].expires_at = now + ResetTokenHours * UnitsPerHour
           ELSE /\ resetTokens' = resetTokens
                /\ users' = users
                /\ identities' = identities
                /\ sessions' = sessions
                /\ mailed' = mailed
                /\ logs' = logs]_vars

\* C16 witness: a request for the address of a deactivated local user has been
\* answered and no token exists.
C16_Witness ==
    /\ last.op = "forgot"
    /\ UserByEmail(last.name) # 0
    /\ users[UserByEmail(last.name)].auth_provider = "local"
    /\ ~users[UserByEmail(last.name)].is_active
    /\ DOMAIN resetTokens = {}

\* C17: no raw reset token is ever written to the log.
C17_RawTokenNeverLogged == logs = {}

\* C18: change_password replaces the password hash of the acting user, and of
\* nobody else, only if the current password verifies against the stored hash
\* and the new password passes the policy; a wrong current password is answered
\* 401 and a weak new password 422, and both leave every hash unchanged.
C18_ChangePasswordVerified ==
    [][Request("change_password") =>
           LET u == last'.uid IN
           IF ~verify_password(last'.name, users[u].password_hash)
           THEN last'.status = 401 /\ users' = users
           ELSE IF ~validate_password(last'.pw, users[u].username)
           THEN last'.status = 422 /\ users' = users
           ELSE /\ last'.status = 200
                /\ verify_password(last'.pw, users'[u].password_hash)
                /\ users'[u].password_hash # users[u].password_hash
                /\ \A o \in DOMAIN users \ {u} : users'[o] = users[o]]_vars

\* C18 witness: a user who changed the password has logged in with the new one.
C18_Witness ==
    /\ last.op = "login"
    /\ last.status = 200
    /\ users[last.uid].password_hash.salt > 1
    /\ verify_password(last.pw, users[last.uid].password_hash)

\* The unused token rows the raw token verifies against.
UnusedMatching(raw) == {t \in Matching(raw) : resetTokens[t].used_at = NoTime}

\* C19: reset_password is all-or-nothing: a success replaces the owner's password
\* hash and sets the token's used_at in the same step; a request that fails,
\* among them one with a new password the policy rejects or one for a token
\* whose owner is missing or inactive, changes no user and no token row, so the
\* token stays unused.
C19_ResetAllOrNothing ==
    [][Request("reset") =>
           /\ last'.status = 200 =>
                  \E t \in UnusedMatching(last'.rt) :
                      /\ resetTokens'[t].used_at = now
                      /\ verify_password(last'.pw,
                                         users'[resetTokens[t].user_id].password_hash)
                      /\ users'[resetTokens[t].user_id].password_hash
                             # users[resetTokens[t].user_id].password_hash
           /\ last'.status # 200 => (users' = users /\ resetTokens' = resetTokens)
           /\ \A t \in UnusedMatching(last'.rt) :
                  ( \/ resetTokens[t].user_id \notin DOMAIN users
                    \/ ~users[resetTokens[t].user_id].is_active
                    \/ ~validate_password(last'.pw, users[resetTokens[t].user_id].username) )
                  => /\ last'.status \in {400, 422}
                     /\ resetTokens'[t].used_at = NoTime]_vars

\* C19 witness: a token whose owner was deactivated has been presented with a
\* strong password, refused, and is still unused.
C19_Witness ==
    /\ last.op = "reset"
    /\ last.status = 400
    /\ last.pw \in StrongPasswords
    /\ \E t \in UnusedMatching(last.rt) : ~users[resetTokens[t].user_id].is_active

\* C20: an admin cannot lock themselves out: update_user with is_admin=false or
\* is_active=false for the acting admin, and delete_user for the acting admin,
\* are refused and change no user, session, reset token or identity.
C20_NoSelfLockout ==
    [][( /\ \/ Request("delete_user")
            \/ Request("update_user") /\ (last'.pw = "false" \/ last'.rt = "false")
         /\ last'.name = ToString(last'.uid)
         /\ users[last'.uid].is_admin )
       => /\ last'.status = 400
          /\ users' = users
          /\ sessions' = sessions
          /\ resetTokens' = resetTokens
          /\ identities' = identities]_vars

\* C20 witness: an admin who holds a reset token, beside another user who holds
\* a session, has asked to deactivate their own account and has been refused.
C20_Witness ==
    /\ last.op = "update_user"
    /\ last.name = ToString(last.uid)
    /\ last.rt = "false"
    /\ last.status = 400
    /\ users[last.uid].is_admin /\ users[last.uid].is_active
    /\ \E t \in DOMAIN resetTokens : resetTokens[t].user_id = last.uid
    /\ \E x \in DOMAIN sessions : sessions[x].user_id # last.uid

\* C21: an admin operation (list, get, update or delete a user; read or update
\* the auth settings) requested by an authenticated user who is not an admin is
\* answered with 403 and changes no user, session, identity, reset-token or
\* settings state.
AdminOps == {"list_users", "get_user", "update_user", "delete_user", "get_settings",
             "settings"}

C21_NonAdminRejected ==
    [][( /\ last'.op \in AdminOps /\ ticks' = ticks
         /\ last'.uid \in DOMAIN users
         /\ ~users[last'.uid].is_admin )
       => /\ last'.status = 403
          /\ users' = users /\ sessions' = sessions /\ settings' = settings
          /\ identities' = identities /\ resetTokens' = resetTokens]_vars

\* A non-admin who holds a session has been refused the deletion of the admin.
C21_Witness ==
    /\ last.op = "delete_user" /\ last.status = 403
    /\ last.uid \in DOMAIN users /\ ~users[last.uid].is_admin
    /\ last.name # ToString(last.uid)
    /\ \E x \in DOMAIN sessions : sessions[x].user_id = last.uid

\* C22: after delete_user succeeds no session, reset-token or identity row
\* references the deleted user, no refresh token and no reset token of that
\* user is accepted in the state the deletion leaves, and at no time does a row
\* of the three tables reference a user that does not exist.
NoOrphanRows ==
    /\ \A x \in DOMAIN sessions : sessions[x].user_id \in DOMAIN users
    /\ \A t \in DOMAIN resetTokens : resetTokens[t].user_id \in DOMAIN users
    /\ \A i \in DOMAIN identities : identities[i].user_id \in DOMAIN users

Deleted == CHOOSE u \in UserIds : ToString(u) = last'.name

C23_SetupOnlyWhenEmpty ==
    [][ /\ Request("setup") =>
            /\ (DOMAIN users # {}) => last'.status = 403
            /\ last'.status # 201 => users' = users /\ identities' = identities
            /\ last'.status = 201 =>
                  /\ DOMAIN users = {}
                  /\ Cardinality(DOMAIN users') = 1
                  /\ \A u \in DOMAIN users' :
                        /\ users'[u].is_admin /\ users'[u].is_active
                        /\ users'[u].username = last'.name
                        /\ last'.uid = u
                  /\ Cardinality(DOMAIN identities') = Cardinality(DOMAIN identities) + 1
                  /\ \A i \in DOMAIN identities' \ DOMAIN identities :
                        /\ identities'[i].user_id = last'.uid
                        /\ identities'[i].provider = "local"
                        /\ identities'[i].identifier = last'.name
        /\ Request("setup_required") =>
            (last'.detail = "true" <=> DOMAIN users = {})
      ]_vars

\* A setup with a valid password has been refused while two users exist.
C23_Witness ==
    /\ last.op = "setup" /\ last.status = 403 /\ last.pw \in StrongPasswords
    /\ Cardinality(DOMAIN users) = 2

\* C24: when delegated login is enabled and the provider fails, a timeout or a
\* connection failure is answered with 503 and bad credentials with 401, a 503
\* is given for nothing but a timeout or a connection failure, and no user,
\* identity or session is created or modified.
C24_ProviderFailureKinds ==
    [][(Request("dispatcharr_login") /\ settings.dispatcharr_enabled) =>
           /\ last'.pw \in {"timeout", "connection"} <=> last'.status = 503
           /\ last'.pw = "bad_credentials" => last'.status = 401
           /\ last'.pw # "ok" =>
                  /\ users' = users /\ identities' = identities
                  /\ sessions' = sessions /\ issued' = issued]_vars

\* The provider timed out for a login while a delegated user already exists.
C24_Witness ==
    /\ last.op = "dispatcharr_login" /\ last.pw = "timeout" /\ last.status = 503
    /\ \E u \in DOMAIN users : users[u].auth_provider = "dispatcharr"

\* C25: a delegated login the provider accepts for an external identity that
\* is not linked yet (no identity row and no legacy user with its external id)
\* leaves every existing user as it is and logs in as none of them; it creates
\* a new user, named as the provider names it or, when a user has that name,
\* with the prefix; and no two users ever share a username.
Unlinked(external_id) ==
    DispatcharrIdentityOf(external_id) = 0 /\ LegacyDispatcharrUser(external_id) = 0

UsernameTaken(username) == \E u \in DOMAIN users : users[u].username = username

C25_UnlinkedLoginCreatesPrefixedUser ==
    /\ [](\A u, v \in DOMAIN users : u # v => users[u].username # users[v].username)
    /\ [][( /\ Request("dispatcharr_login") /\ settings.dispatcharr_enabled
             /\ last'.pw = "ok" /\ Unlinked(last'.rt) )
           => /\ \A u \in DOMAIN users : u \in DOMAIN users' /\ users'[u] = users[u]
              /\ last'.uid \notin DOMAIN users
              /\ last'.status = 200
              /\ last'.uid \in DOMAIN users'
              /\ users'[last'.uid].username =
                     IF UsernameTaken(last'.name) THEN "disp_" \o last'.name
                     ELSE last'.name]_vars

\* C26: no user ever has two identities for one provider, and link_identity
\* answers with the conflict status, changing no identity and no user, whenever
\* the acting user already has an identity for the provider requested.
OneIdentityPerProvider ==
    \A i, j \in DOMAIN identities :
        (i # j /\ identities[i].user_id = identities[j].user_id)
            => identities[i].provider # identities[j].provider

UniqueEmails ==
    \A u, v \in DOMAIN users :
        (u # v /\ users[u].email # "") => users[u].email # users[v].email

MaxSubject == 3
MaxClock == 3
TokenSubjects == 1..MaxSubject
TokenUsernames == {"admin", "bob", "testuser"}
ClockPerSecond == 2
SecondsPerMinute == 60
NoDelta == [given |-> FALSE, seconds |-> 0]
timedelta(seconds) == [given |-> TRUE, seconds |-> seconds]
ExpiresDeltas == {NoDelta, timedelta(3600), timedelta(60), timedelta(0 - 1)}
ClockReadings == 0..MaxClock
\* How long after its creation a fresh token is decoded, in half seconds.
Lags == {0, 1}
secret_key == "secret"
NoClaims == [sub |-> 0, username |-> "", exp |-> 0, iat |-> 0]

\* A datetime as the token carries it: whole seconds, the fraction cut off.
NumericDate(reading) == reading \div ClockPerSecond

\* The signature segment: a keyed digest of the header and payload segments.
Sign(header, payload, key) == [key |-> key, over |-> <<header, payload>>]

\* The token format: header, payload and signature segments.
jwt_encode(claims, key) == <<"HS256", claims, Sign("HS256", claims, key)>>

\* TokenService.create_access(user_id, username, ttl): the claims sub,
\* username, exp and iat, signed; the lifetime is the ttl given, or the
\* configured access_token_expire_minutes.
create_access(user_id, username, expires_delta, utcnow) ==
    LET lifetime == IF expires_delta.given THEN expires_delta.seconds
                    ELSE access_token_expire_minutes * SecondsPerMinute
        expire == utcnow + lifetime * ClockPerSecond
    IN jwt_encode([sub |-> user_id, username |-> username,
                   exp |-> NumericDate(expire), iat |-> NumericDate(utcnow)],
                  secret_key)

\* TokenService.decode(token): the claims, or InvalidTokenError for a token
\* that has not three segments or a wrong signature, or TokenExpiredError
\* when exp has passed.
decode(token, utcnow) ==
    IF Len(token) # 3 \/ token[3] # Sign(token[1], token[2], secret_key)
    THEN [error |-> "InvalidTokenError", claims |-> NoClaims]
    ELSE IF token[2].exp < NumericDate(utcnow)
    THEN [error |-> "TokenExpiredError", claims |-> NoClaims]
    ELSE [error |-> "ok", claims |-> token[2]]

login_access_token_NoName(user_id, username, utcnow) ==
    create_access(user_id, "", NoDelta, utcnow)

\* login: access_token = create_access_token(user_id=user.id,
\* username=user.username)
login_access_token(user_id, username, utcnow) ==
    create_access(user_id, username, NoDelta, utcnow)

\* create_access_token(user_id, username, expires_delta), and decode_token of
\* the token it returned.
CreateAccess ==
    /\ \E user_id \in TokenSubjects, username \in TokenUsernames,
          expires_delta \in ExpiresDeltas, utcnow \in ClockReadings, lag \in Lags :
           LET token == create_access(user_id, username, expires_delta, utcnow)
               decoded == decode(token, utcnow + lag)
           IN last' = Resp("create_access", user_id, username, expires_delta, token,
                           utcnow, IF decoded.error = "ok" THEN 200 ELSE 401,
                           decoded.error, decoded.claims)
    /\ UNCHANGED <<users, identities, sessions, resetTokens, now, ticks, seq, issued,
                   mailed, rotated, redeemed, inflight, logs, settings, cached, config_file>>

\* The access token login issues for a user, and decode_token of it.
LoginToken ==
    /\ \E user_id \in TokenSubjects, username \in TokenUsernames,
          utcnow \in ClockReadings, lag \in Lags :
           LET token == login_access_token(user_id, username, utcnow)
               decoded == decode(token, utcnow + lag)
           IN last' = Resp("login_token", user_id, username, NoDelta, token,
                           utcnow, IF decoded.error = "ok" THEN 200 ELSE 401,
                           decoded.error, decoded.claims)
    /\ UNCHANGED <<users, identities, sessions, resetTokens, now, ticks, seq, issued,
                   mailed, rotated, redeemed, inflight, logs, settings, cached, config_file>>

NextTokens == CreateAccess \/ LoginToken

SpecTokens == Init /\ [][NextTokens]_vars

SettingsValues ==
    [require_auth : BOOLEAN, dispatcharr_enabled : BOOLEAN,
     secret_key : {NoSecret, OldSecret}]
ConfigFiles == {NoFile, Truncated} \cup {Written(s) : s \in SettingsValues}

\* The process before its first load_auth_settings, over any config file.
InitSettings ==
    /\ users = <<>>
    /\ identities = <<>>
    /\ sessions = <<>>
    /\ resetTokens = <<>>
    /\ now = 0
    /\ ticks = 0
    /\ seq = 0
    /\ issued = {}
    /\ mailed = {}
    /\ rotated = {}
    /\ redeemed = {}
    /\ inflight = <<>>
    /\ logs = {}
    /\ settings = DefaultSettings
    /\ cached = FALSE
    /\ config_file \in ConfigFiles
    /\ last = Resp("none", NoUser, "", "", NoToken, NoRaw, 0, "", NoToken)

\* A call save_auth_settings(s).
SaveSettings ==
    /\ \E s \in SettingsValues, outcome \in DiskOutcomes :
           /\ Possible(outcome)
           /\ save_auth_settings(s, outcome)
           /\ last' = Resp("save", NoUser, outcome, "", s, NoRaw, 0, SaveResult(outcome),
                           NoToken)
    /\ UNCHANGED <<users, identities, sessions, resetTokens, now, ticks, seq, issued,
                   mailed, rotated, redeemed, inflight, logs>>

\* A call get_auth_settings().
GetAuthSettings ==
    /\ \E outcome \in DiskOutcomes : Possible(outcome) /\ get_auth_settings(outcome)
    /\ UNCHANGED <<users, identities, sessions, resetTokens, now, ticks, issued,
                   mailed, rotated, redeemed, inflight, logs>>

\* settings.clear_auth_settings_cache(): the cache is None (the settings
\* variable then holds no value of the program; it is set to the defaults).
ClearCache ==
    /\ cached' = FALSE
    /\ settings' = DefaultSettings
    /\ last' = Resp("clear_cache", NoUser, "", "", NoToken, NoRaw, 0, "",
                    IF cached THEN settings.secret_key ELSE NoSecret)
    /\ UNCHANGED <<users, identities, sessions, resetTokens, now, ticks, seq, issued,
                   mailed, rotated, redeemed, inflight, logs, config_file>>

NextSettings == SaveSettings \/ GetAuthSettings \/ ClearCache

SpecSettings == InitSettings /\ [][NextSettings]_vars

\* C29: after every call save_auth_settings(s) that returns, True or False,
\* the cache is set and holds s, and a get_auth_settings() that follows it
\* returns s from the cache and leaves the file as it is.
C29_SaveUpdatesCache ==
    /\ [][(Request("save") /\ last'.detail # "raised")
           => cached' /\ settings' = last'.tok]_vars
    /\ [][(last.op = "save" /\ last.detail # "raised" /\ Request("get_auth_settings"))
           => /\ last'.tok = last.tok
              /\ last'.detail = "cache"
              /\ config_file' = config_file]_vars

\* A save has returned False because the write was refused, the file still
\* holds another value, and the cache holds the value saved.
C29_Witness ==
    /\ last.op = "save" /\ last.name = "refused" /\ last.detail = "False"
    /\ config_file.kind = "json" /\ config_file.data # last.tok
    /\ cached /\ settings = last.tok

\* --------------------------------------- the settings update, by statement
\* update_admin_auth_settings as the statements it runs on the cached object,
\* with the requests of other workers between them.
UpdateFields == {"unset", "true", "false"}

\* A settings update in progress: the fields requested, and the settings
\* value get_auth_settings() returned when it began.
Updating(admin, require_auth, dispatcharr_enabled, before) ==
    [op |-> "settings", tok |-> NoToken, rt |-> dispatcharr_enabled,
     pw |-> require_auth, row |-> before, uid |-> admin, pc |-> "loaded",
     status |-> 0, out |-> NoToken]

InProgress == {r \in DOMAIN inflight : inflight[r].op = "settings" /\ inflight[r].pc # "done"}

\* The settings value with every field of the request applied.
Requested(req) ==
    [req.row EXCEPT !.require_auth = Apply(@, req.pw),
                    !.dispatcharr_enabled = Apply(@, req.rt)]

\* require_admin, and settings = get_auth_settings().
UpdateBegin(r) ==
    /\ r \notin DOMAIN inflight
    /\ InProgress = {}
    /\ cached
    /\ \E admin \in CurrentUsers, require_auth \in UpdateFields,
          dispatcharr_enabled \in UpdateFields :
           LET req == Updating(admin, require_auth, dispatcharr_enabled, settings) IN
           IF ~require_admin(admin)
           THEN /\ inflight' = inflight @@ (r :> Done(req, 403, NoToken))
                /\ last' = Resp("settings", admin, "", "", NoToken, NoRaw, 403,
                                "Admin access required", NoToken)
           ELSE /\ inflight' = inflight @@ (r :> req)
                /\ last' = last
    /\ UNCHANGED <<users, identities, sessions, resetTokens, now, ticks, seq, issued,
                   mailed, rotated, redeemed, logs, settings, cached, config_file>>

\* settings.require_auth = update_request.require_auth, when it is given.
UpdateTop(r) ==
    /\ r \in InProgress
    /\ inflight[r].pc = "loaded"
    /\ settings' = [settings EXCEPT !.require_auth = Apply(@, inflight[r].pw)]
    /\ inflight' = [inflight EXCEPT ![r].pc = "top"]
    /\ UNCHANGED <<users, identities, sessions, resetTokens, now, ticks, seq, issued,
                   mailed, rotated, redeemed, logs, cached, config_file, last>>

\* settings.dispatcharr.enabled = update_request.dispatcharr_enabled, when it
\* is given.
UpdateDispatcharr(r) ==
    /\ r \in InProgress
    /\ inflight[r].pc = "top"
    /\ settings' = [settings EXCEPT !.dispatcharr_enabled = Apply(@, inflight[r].rt)]
    /\ inflight' = [inflight EXCEPT ![r].pc = "applied"]
    /\ UNCHANGED <<users, identities, sessions, resetTokens, now, ticks, seq, issued,
                   mailed, rotated, redeemed, logs, cached, config_file, last>>

\* save_auth_settings(settings), and the response.
UpdateSave(r) ==
    /\ r \in InProgress
    /\ inflight[r].pc = "applied"
    /\ \E outcome \in DiskOutcomes :
           /\ Possible(outcome)
           /\ save_auth_settings(settings, outcome)
           /\ LET code == IF outcome = "error" THEN 500 ELSE 200 IN
              /\ inflight' = [inflight EXCEPT ![r] = Done(@, code, NoToken)]
              /\ last' = Resp("settings", inflight[r].uid, outcome, "", NoToken, NoRaw,
                              code, SaveResult(outcome), NoToken)
    /\ UNCHANGED <<users, identities, sessions, resetTokens, now, ticks, seq, issued,
                   mailed, rotated, redeemed, logs>>

NextUpdate ==
    \/ Setup
    \/ \E r \in Requests : UpdateBegin(r)
    \/ \E r \in Requests : UpdateTop(r)
    \/ \E r \in Requests : UpdateDispatcharr(r)
    \/ \E r \in Requests : UpdateSave(r)
    \/ GetSettings

SpecUpdate == Init /\ [][NextUpdate]_vars

GetJwtSecretKey ==
    /\ \E outcome \in DiskOutcomes : Possible(outcome) /\ get_jwt_secret_key(outcome)
    /\ UNCHANGED <<users, identities, sessions, resetTokens, now, ticks, issued,
                   mailed, rotated, redeemed, inflight, logs>>

NextSecret == GetJwtSecretKey \/ GetAuthSettings \/ ClearCache

SpecSecret == InitSettings /\ [][NextSecret]_vars

\* C31: the signing secret is generated once: every get_jwt_secret_key that
\* returns gives a secret that is not empty, and the secret the call before it
\* returned or cleared from the cache, also when the cache was cleared and
\* the settings were loaded again.
SecretCalls == {"get_jwt_secret_key", "get_auth_settings", "clear_cache"}

C31_SecretGeneratedOnce ==
    [][(Request("get_jwt_secret_key") /\ last'.status = 200)
        => /\ last'.out # NoSecret
           /\ (last.op \in SecretCalls /\ last.status # 500 /\ last.out # NoSecret)
                  => last'.out = last.out]_vars

\* ------------------------------------------------- one user, many sessions
MaxLogins == 6
\* SessionSettings.max_sessions_per_user
max_sessions_per_user == 5

\* A login with the admin's credentials, from one more device.
LoginAgain ==
    /\ \E username \in SetupUsernames, password \in SetupPasswords :
           login_within(username, password, MaxLogins)
    /\ UNCHANGED <<resetTokens, now, ticks, mailed, rotated, redeemed, inflight, logs,
                   settings, cached, config_file>>

MaxDevices == 2

\* A login with the admin's credentials, while the user has few sessions.
LoginOnDevice ==
    /\ \E username \in SetupUsernames, password \in SetupPasswords :
           login_within(username, password, MaxDevices)
    /\ UNCHANGED <<resetTokens, now, ticks, mailed, rotated, redeemed, inflight, logs,
                   settings, cached, config_file>>

NextDevices ==
    \/ Setup
    \/ LoginOnDevice
    \/ Refresh
    \/ Logout
    \/ Tick(HalfHour)

SpecDevices == Init /\ [][NextDevices]_vars

\* C32: a successful refresh changes only the session row that holds the hash
\* of the presented token: that row gets the hash of the new refresh token,
\* last_used_at = now and expires_at = now plus the refresh lifetime, and keeps
\* its id, user_id and is_revoked; every other row stays as it is, and no row
\* is created or deleted.
C32_RefreshTouchesOneRow ==
    [][(Request("refresh") /\ last'.status = 200)
        => LET sid == SessionOf(last'.tok) IN
           /\ DOMAIN sessions' = DOMAIN sessions
           /\ \A s \in DOMAIN sessions \ {sid} : sessions'[s] = sessions[s]
           /\ sessions'[sid].user_id = sessions[sid].user_id
           /\ sessions'[sid].is_revoked = sessions[sid].is_revoked
           /\ sessions'[sid].refresh_token_hash = hash_token(last'.out)
           /\ sessions'[sid].refresh_token_hash # sessions[sid].refresh_token_hash
           /\ sessions'[sid].last_used_at = now
           /\ sessions'[sid].expires_at = now + refresh_token_expire_days * UnitsPerDay]_vars

\* A refresh has rotated one of two sessions of a user half an hour after
\* the logins, and the other session is as its login left it.
C32_Witness ==
    /\ last.op = "refresh" /\ last.status = 200
    /\ Cardinality(DOMAIN sessions) = 2
    /\ \E s, u \in DOMAIN sessions :
          /\ sessions[s].refresh_token_hash = hash_token(last.out)
          /\ sessions[s].last_used_at = now /\ now > 0
          /\ u # s /\ ~sessions[u].is_revoked /\ sessions[u].last_used_at = 0
          /\ sessions[u].user_id = sessions[s].user_id

\* ------------------------------------------------- the session limit
NextLogins ==
    \/ Setup
    \/ LoginAgain
    \/ Logout
    \/ Tick(HalfHour)

SpecLogins == Init /\ [][NextLogins]_vars

\* The sessions of user u that are not revoked and have not expired.
ActiveSessions(u) ==
    {s \in DOMAIN sessions :
        /\ sessions[s].user_id = u
        /\ ~sessions[s].is_revoked
        /\ sessions[s].expires_at >= now}

\* C33: max_sessions_per_user being non-zero, no user has more active
\* (non-revoked, unexpired) sessions than that, however often they log in.
C33_SessionLimitHolds ==
    max_sessions_per_user # 0
    => \A u \in DOMAIN users : Cardinality(ActiveSessions(u)) <= max_sessions_per_user

NextDeactivate ==
    \/ Setup
    \/ UpdateSettings
    \/ DelegatedSignIn
    \/ SetActive
    \/ RefreshIssued

SpecDeactivate == Init /\ [][NextDeactivate]_vars

\* C35: a refresh succeeds only for a token whose sub is a user that exists
\* and is active; while a user is inactive no refresh with a token of theirs
\* succeeds, although their sessions are not revoked.
C35_RefreshNeedsActiveUser ==
    [][(Request("refresh") /\ last'.tok # NoToken
          /\ (last'.tok.sub \notin DOMAIN users \/ ~users[last'.tok.sub].is_active))
        => /\ last'.status = 401
           /\ sessions' = sessions]_vars

\* A refresh with the token of a session that is neither revoked nor expired
\* has been refused because the admin had deactivated its user.
C35_Witness ==
    /\ last.op = "refresh" /\ last.status = 401
    /\ last.detail = "User not found or disabled"
    /\ last.tok.sub \in DOMAIN users /\ ~users[last.tok.sub].is_active
    /\ \E s \in DOMAIN sessions :
          /\ sessions[s].refresh_token_hash = hash_token(last.tok)
          /\ sessions[s].user_id = last.tok.sub
          /\ ~sessions[s].is_revoked /\ sessions[s].expires_at >= now

\* C36: a password hash that is set is replaced only by a change_password
\* that verified the current password or by a reset_password with a valid
\* token; no other request, link_identity for provider local among them,
\* overwrites a password hash that is set.
C36_HashReplacedOnlyByOwner ==
    [][\A u \in DOMAIN users :
          (/\ users[u].password_hash # NoHash
           /\ u \in DOMAIN users'
           /\ users'[u].password_hash # users[u].password_hash)
          => /\ last'.op \in {"change_password", "reset_password"}
             /\ last'.status = 200]_vars

\* ------------------------------------------------- login after an unlink
NextUnlinked ==
    \/ Setup
    \/ UpdateSettings
    \/ LinkDispatcharr
    \/ Unlink
    \/ Login

SpecUnlinked == Init /\ [][NextUnlinked]_vars

\* The users called `username` who have no identity of provider local (every
\* user of this specification was created with one, so they have unlinked it).
UnlinkedLocal(username) ==
    {u \in DOMAIN users :
        /\ users[u].username = username
        /\ \A i \in IdentitiesOf(u) : identities[i].provider # "local"}

\* C37: after a user has unlinked their local identity, a local login with
\* their username and password does not succeed.
C37_NoLoginAfterUnlink ==
    [][(Request("login") /\ UnlinkedLocal(last'.name) # {}) => last'.status # 200]_vars

\* C38: once setup has created the first admin, the users table is never
\* empty again and always holds a user that is an admin and active, whatever
\* updates and deletions of users the admins request one after the other.
ActiveAdmins == {u \in DOMAIN users : users[u].is_admin /\ users[u].is_active}

UnlinkBegin(r, current_user, identity_id) ==
    LET check == UnlinkCheck(current_user, identity_id)
        req == Suspended("unlink", NoToken, NoRaw, "", identity_id, current_user)
        code == IF check = "Identity not found" THEN 404 ELSE 400
    IN
    /\ r \notin DOMAIN inflight
    /\ IF check # "ok"
       THEN /\ inflight' = inflight @@ (r :> Done(req, code, NoToken))
            /\ last' = Resp("unlink", current_user, ToString(identity_id), "", NoToken,
                            NoRaw, code, check, NoToken)
       ELSE /\ inflight' = inflight @@ (r :> req)
            /\ last' = last
    /\ UNCHANGED <<users, identities, sessions, resetTokens, now, ticks, seq, issued,
                   mailed, rotated, redeemed, logs, settings, cached, config_file>>

\* unlink_identity from session.delete(identity) to the commit: a DELETE of the
\* loaded row by its primary key, whatever the other rows of the user are by now.
UnlinkCommit(r) ==
    /\ r \in DOMAIN inflight
    /\ inflight[r].op = "unlink"
    /\ inflight[r].pc = "queried"
    /\ identities' = Delete(identities, {inflight[r].row})
    /\ inflight' = [inflight EXCEPT ![r] = Done(@, 200, NoToken)]
    /\ last' = Resp("unlink", inflight[r].uid, ToString(inflight[r].row), "", NoToken,
                    NoRaw, 200, "Identity unlinked successfully", NoToken)
    /\ UNCHANGED <<users, sessions, resetTokens, now, ticks, seq, issued, mailed, rotated,
                   redeemed, logs, settings, cached, config_file>>

BeginUnlink ==
    \E r \in Requests, current_user \in CurrentUsers, identity_id \in IdentityIds :
        UnlinkBegin(r, current_user, identity_id)
CommitUnlink == \E r \in Requests : UnlinkCommit(r)

NextUnlinkRace ==
    \/ Setup
    \/ UpdateSettings
    \/ LinkDispatcharr
    \/ BeginUnlink
    \/ CommitUnlink

SpecUnlinkRace == Init /\ [][NextUnlinkRace]_vars

\* C39: of two unlink_identity requests of one user with two identities, each
\* for another identity, at most one succeeds: a request is answered 200 only
\* while the user has more than one identity, and no user is ever left with no
\* identity, whatever the interleaving of the requests' checks and deletes.
C39_LastIdentityKept ==
    /\ [](\A u \in DOMAIN users : IdentitiesOf(u) # {})
    /\ [][Request("unlink") /\ last'.status = 200 /\ identities' # identities
              => Cardinality(IdentitiesOf(last'.uid)) > 1]_vars

\* ---------------------------------------------- concurrent initial_setup
RaceUsernames == {"admin", "root"}

\* initial_setup up to the password validation (the checks before the insert).
SetupBegin(r, username, email, password) ==
    LET req == [email |-> email] @@
               Suspended("setup", NoToken, username, password, 0, NoUser)
        code == IF user_count > 0 THEN 403 ELSE 422
    IN
    /\ r \notin DOMAIN inflight
    /\ IF user_count > 0 \/ ~validate_password(password, username)
       THEN /\ inflight' = inflight @@ (r :> Done(req, code, NoToken))
            /\ last' = Resp("setup", NoUser, username, password, NoToken, NoRaw, code,
                            IF user_count > 0
                            THEN "Setup already completed. Users already exist."
                            ELSE "weak password", NoToken)
       ELSE /\ inflight' = inflight @@ (r :> req)
            /\ last' = last
    /\ UNCHANGED <<users, identities, sessions, resetTokens, now, ticks, seq, issued,
                   mailed, rotated, redeemed, logs, settings, cached, config_file>>

\* initial_setup from User(...) to the commit. The insert fails (an integrity
\* error, answered 500) when the username or the e-mail address is taken.
SetupCommit(r) ==
    LET req == inflight[r]
        uid == NextId(users)
        added == Insert(users,
                    [username |-> req.rt, email |-> req.email,
                     password_hash |-> hash_password(req.pw, seq + 1),
                     auth_provider |-> "local", external_id |-> "",
                     is_admin |-> TRUE, is_active |-> TRUE, last_login_at |-> NoTime])
    IN
    /\ r \in DOMAIN inflight
    /\ inflight[r].op = "setup"
    /\ inflight[r].pc = "queried"
    /\ seq' = seq + 1
    /\ IF ~UniqueUsers(added)
       THEN /\ inflight' = [inflight EXCEPT ![r] = Done(@, 500, NoToken)]
            /\ last' = Resp("setup", NoUser, req.rt, req.pw, NoToken, NoRaw, 500,
                            "IntegrityError", NoToken)
            /\ UNCHANGED <<users, identities>>
       ELSE /\ users' = added
            /\ identities' = Insert(identities,
                   [user_id |-> uid, provider |-> "local", identifier |-> req.rt,
                    external_id |-> "", last_used_at |-> NoTime])
            /\ inflight' = [inflight EXCEPT ![r] = Done(@, 201, NoToken)]
            /\ last' = Resp("setup", uid, req.rt, req.pw, NoToken, NoRaw, 201,
                            "Setup complete", NoToken)
    /\ UNCHANGED <<sessions, resetTokens, now, ticks, issued, mailed, rotated, redeemed,
                   logs, settings, cached, config_file>>

BeginSetup ==
    \E r \in Requests, username \in RaceUsernames, email \in Emails,
       password \in SetupPasswords :
        SetupBegin(r, username, email, password)
CommitSetup == \E r \in Requests : SetupCommit(r)

NextSetupRace ==
    \/ BeginSetup
    \/ CommitSetup
    \/ SetupRequired

SpecSetupRace == Init /\ [][NextSetupRace]_vars

\* C40: two initial_setup requests that both saw the empty users table do not
\* both create a user: at most one user exists, and at most one of the two
\* requests is answered 201.
C40_OneSetupWins ==
    /\ user_count <= 1
    /\ ~(\A r \in Requests : r \in DOMAIN inflight /\ inflight[r].status = 201)

====
